---- MODULE Spec2Model ----
(***************************************************************************)
(* Candle aggregator of the kline hook (useBinanceKlineStream): the bar    *)
(* buffer seeded from a historical fetch, merged with kline messages of    *)
(* the live stream, and the indicator set derived from it; the stream      *)
(* transport (BinanceWebSocketClient) the hooks subscribe with; and the    *)
(* price list of the ticker hook (useBinanceTickerStream).                 *)
(*                                                                         *)
(* Spec           the aggregator alone, messages handed to handleMessage   *)
(* TransportSpec  one transport driven through its public methods          *)
(* SwitchSpec     the hook with the transports it creates and abandons     *)
(* TickerSpec     the ticker hook with the transports it creates and       *)
(*                abandons; connectionState, error and wsClientRef are     *)
(*                there the state of the ticker hook                       *)
(***************************************************************************)
EXTENDS Integers, Sequences, FiniteSets, TLC

(* ------------------------------------------------------------------ *)
(* Program constants                                                    *)
(* ------------------------------------------------------------------ *)

\* const MAX_CANDLES = 200
MAX_CANDLES == 200

\* the literal 200 of `initialData.length >= 200` and `updated.length >= 200`
MIN_INDICATOR_BARS == 200

(* ------------------------------------------------------------------ *)
(* Bounds of the model                                                  *)
(* ------------------------------------------------------------------ *)

\* kline messages accepted by the guard between two seed applications
MaxMsgs == 2

\* sockets constructed in one behaviour
MaxSockets == 3

\* setTimeout callbacks of one transport pending at a time
MaxTimers == 2

\* transports the hook constructs in one behaviour
MaxClients == 2

\* connection attempts counted in one burst of reconnect() calls
MaxAttempts == 2

\* callbacks scheduled by reconnect() of a transport of the ticker hook that
\* have not run yet
MaxPending == 1

\* historical fetches of the page in flight at a time
MaxFetches == 2

\* advances of the server's clock in a run
MaxTicks == 3

\* calls made to the AI providers in a run
MaxCalls == 2

\* requests of the cached routes waiting for their upstream at a time
MaxRefreshes == 2

(* ------------------------------------------------------------------ *)
(* Values                                                               *)
(* ------------------------------------------------------------------ *)

\* `null` and a present value, for number | null and AllIndicators | null
None == << >>
Some(v) == << v >>

Symbols == {"BTCUSDT", "ETHUSDT"}
Intervals == {"1d", "1h"}
EventTypes == {"kline", "24hrTicker"}

\* decimal strings as Binance sends them in k.o, k.h, k.l, k.c, k.v
PriceStrings == {"105"}

\* decimal strings as Binance sends them in the c of a 24hrTicker event
TickerPrices == {"105", "106.00000000"}

\* parseFloat on the strings of PriceStrings and TickerPrices
parseFloat(s) == CASE s = "105" -> 105
                   [] s = "106.00000000" -> 106

\* bar-open timestamps of the stream: the bar the longest seed ends with, and
\* the bar after it
StreamTs == {MAX_CANDLES, MAX_CANDLES + 1}

\* BinanceKlineStream wrapped in WebSocketMessage: data.e, k.s, k.i, k.t, k.x, k.c
KlineMessages == [e : EventTypes, s : Symbols, i : Intervals, t : StreamTs,
                  x : BOOLEAN, c : PriceStrings]

\* the messages delivered: every bar update of the kline streams, and one
\* closed bar for each other event type
Messages == {m \in KlineMessages :
               m.e # "kline" => (m.t = MAX_CANDLES /\ m.x)}

\* n bars with timestamps 1..n and one price
MakeSeed(n, price) == [k \in 1..n |-> [timestamp |-> k, close |-> price]]

\* the historical sequences the page hands to the hook: none, one short of
\* the lookback, and two different answers to the full request of limit=200
Seeds == {MakeSeed(0, 100), MakeSeed(MAX_CANDLES - 1, 100),
          MakeSeed(MAX_CANDLES, 100), MakeSeed(MAX_CANDLES, 110)}

\* codes of the errors the transport reports through onError
TransportErrors == {"CONNECTION_ERROR"}

(* ------------------------------------------------------------------ *)
(* Indicator engine                                                     *)
(* ------------------------------------------------------------------ *)

\* IndicatorCalculator.calculateAll(symbol, data): no output below the
\* minimum lookback, otherwise a value determined by the symbol and the whole
\* ordered bar sequence
calculateAll(sym, data) ==
  IF Len(data) < MIN_INDICATOR_BARS THEN None
  ELSE Some([symbol |-> sym, over |-> data])

(* ------------------------------------------------------------------ *)
(* State                                                                *)
(* ------------------------------------------------------------------ *)

VARIABLES
  symbol,         \* hook argument symbol
  interval,       \* hook argument interval
  initialData,    \* hook argument initialData
  ohlcvData,      \* useState ohlcvData: the bar buffer
  indicators,     \* useState indicators
  error,          \* useState error
  lastCandleRef,  \* useRef lastCandleRef.current
  seedApplied,    \* history: the sequence the buffer was last seeded with
  accepted,       \* history: kline updates merged since that seeding
  dropped         \* history: the last message delivered was dropped for its symbol or interval

VARIABLES
  clients,         \* the BinanceWebSocketClient instances constructed so far
  sockets,         \* the WebSocket objects constructed so far
  wsClientRef,     \* useRef wsClientRef.current: index into clients, or 0 for null
  connectionState, \* useState connectionState
  emitted,         \* history: the callbacks of config invoked by the last step
  history,         \* history: per transport, what its caller asked for last
  sinceSwitch      \* history: updates merged since the subscription changed, until it is seeded

VARIABLES
  symbols,         \* argument symbols of the ticker hook
  prices           \* useState prices of the ticker hook

\* the variables of the aggregator, but error
bufvars == <<symbol, interval, initialData, ohlcvData, indicators,
             lastCandleRef, seedApplied, accepted, dropped>>

\* the variables of the transports
tvars == <<clients, sockets, wsClientRef, connectionState, emitted, history,
           sinceSwitch>>

\* the variables of the ticker hook, but those it has in common with the
\* kline hook
tickvars == <<symbols, prices>>

VARIABLES
  fetches          \* the page: the historical fetches in flight, each the symbol it asked for

VARIABLES
  stored,          \* sessionStorage item 'crypto-watchlist': its pairs, or None
  lastOp           \* history: the last watchlist call and its outcome

VARIABLES
  now,             \* Date.now() of the server, in ms since the route modules were loaded
  priceCache,      \* collection CryptoPrice: per symbol and interval, a document or None
  cacheUpdates,    \* the updateCache() calls still in flight
  histResponse     \* history: the last request to /api/crypto/historical and its response

VARIABLES
  user,            \* the User document of the account
  keyResponse,     \* history: the status of the last response of /api/user/api-key, or 0
  analyses,        \* collection Analysis
  aiCalls,         \* history: the generateAnalysis calls made to the AI providers
  genResponse      \* history: the last POST /api/analysis/generate and its response

VARIABLES
  cachedPairs,     \* trading-pairs route: module variable cachedPairs
  cacheTimestamp,  \* trading-pairs route: module variable cacheTimestamp
  cachedData,      \* fear-greed route: module variable cachedData
  refreshes,       \* the requests of the two routes that wait for their upstream
  populatedAt,     \* history: per route, when its cache was written last, or -1
  routeResponse    \* history: the last response of one of the two routes

\* the variables of the watchlist storage
watchvars == <<stored, lastOp>>

\* the variables of the historical route
histvars == <<priceCache, cacheUpdates, histResponse>>

\* the variables of the account routes
uservars == <<user, keyResponse, analyses, aiCalls, genResponse>>

\* the variables of the routes with an in-memory cache
cachevars == <<cachedPairs, cacheTimestamp, cachedData, refreshes,
               populatedAt, routeResponse>>

\* the variables of the storage and of the server
appvars == <<watchvars, now, histvars, uservars, cachevars>>

vars == <<symbol, interval, initialData, ohlcvData, indicators, error,
          lastCandleRef, seedApplied, accepted, dropped,
          clients, sockets, wsClientRef, connectionState, emitted, history,
          sinceSwitch, symbols, prices, fetches, appvars>>

\* a slice that keeps the first n entries
SliceFirst(s, n) == SubSeq(s, 1, n)

\* the last n entries of s: s.slice(s.length - n)
SliceLast(s, n) == SubSeq(s, Len(s) - n + 1, Len(s))

\* a replacement that appends instead
ReplaceLastAppends(s, v) == Append(s, v)

\* s with its last entry replaced by v: updated[updated.length - 1] = v
ReplaceLast(s, v) == [s EXCEPT ![Len(s)] = v]

\* the state of the hooks after their first render, before any effect; the
\* page mounts the ticker hook with an empty watchlist
HookInit ==
  /\ symbols = << >>
  /\ prices = << >>
  /\ symbol = "BTCUSDT"
  /\ interval = "1d"
  /\ initialData = << >>
  /\ ohlcvData = << >>
  /\ indicators = None
  /\ error = None
  /\ lastCandleRef = None
  /\ seedApplied = << >>
  /\ accepted = << >>
  /\ dropped = FALSE

\* the keys of the CryptoPrice collection: { symbol, interval }
HistKeys == Symbols \X {"1d"}

\* no fetch of the page is in flight
NoFetches == fetches = << >>

\* nothing is stored in sessionStorage, no watchlist call was made
WatchIdle ==
  /\ stored = None
  /\ lastOp = None

\* the CryptoPrice collection is empty, no request was made
HistIdle ==
  /\ priceCache = [k \in HistKeys |-> None]
  /\ cacheUpdates = {}
  /\ histResponse = None

\* no API key: the field is absent (or the string is empty)
NoKey == << >>

\* the account as registered: no API key, the schema's default provider
UserIdle ==
  /\ user = [anthropicApiKey |-> NoKey, aiProvider |-> "claude"]
  /\ keyResponse = 0
  /\ analyses = << >>
  /\ aiCalls = << >>
  /\ genResponse = None

\* the route modules as loaded
CacheIdle ==
  /\ cachedPairs = None
  /\ cacheTimestamp = 0
  /\ cachedData = None
  /\ refreshes = {}
  /\ populatedAt = [pairs |-> -1, feargreed |-> -1]
  /\ routeResponse = None

\* the storage and the server before any call or request
AppInit ==
  /\ WatchIdle
  /\ now = 0
  /\ HistIdle
  /\ UserIdle
  /\ CacheIdle

\* the hooks and no transport
Unmounted ==
  /\ HookInit
  /\ clients = << >>
  /\ sockets = << >>
  /\ wsClientRef = 0
  /\ connectionState = "disconnected"
  /\ emitted = << >>
  /\ history = << >>
  /\ sinceSwitch = None

\* the aggregator alone: no transport is constructed
Init ==
  /\ NoFetches
  /\ AppInit
  /\ HookInit
  /\ clients = << >>
  /\ sockets = << >>
  /\ wsClientRef = 0
  /\ connectionState = "disconnected"
  /\ emitted = << >>
  /\ history = << >>
  /\ sinceSwitch = None

(* ------------------------------------------------------------------ *)
(* Effects                                                              *)
(* ------------------------------------------------------------------ *)

\* a seed effect that leaves the indicator set alone when the seed is short
SeedIndicatorsKeepsShort(sym, data, current) ==
  IF Len(data) >= MIN_INDICATOR_BARS
  THEN LET newIndicators == calculateAll(sym, data)
       IN  IF newIndicators # None THEN newIndicators ELSE current
  ELSE current

\* the indicator set the seed effect leaves, from the one it finds
SeedIndicators(sym, data, current) ==
  IF Len(data) >= MIN_INDICATOR_BARS
  THEN LET newIndicators == calculateAll(sym, data)
       IN  IF newIndicators # None THEN newIndicators ELSE current
  ELSE None

\* useEffect(..., [initialData, symbol]) run with the given arguments
SeedEffect(sym, data) ==
  IF Len(data) = 0
  THEN UNCHANGED <<ohlcvData, indicators, seedApplied, accepted>>
  ELSE /\ ohlcvData' = data
       /\ indicators' = SeedIndicators(sym, data, indicators)
       /\ seedApplied' = data
       /\ accepted' = << >>

\* the hook is rendered with another initialData: the seed effect runs
InitialDataChanges(data) ==
  /\ UNCHANGED <<symbol, interval, lastCandleRef, dropped>>
  /\ initialData' = data
  /\ SeedEffect(symbol, data)

\* the page stores a fetched historical sequence: initialData changes
SetInitialData(data) ==
  /\ UNCHANGED tvars
  /\ UNCHANGED tickvars
  /\ UNCHANGED <<fetches, appvars>>
  /\ UNCHANGED error
  /\ InitialDataChanges(data)

\* the hook is rendered with another symbol: the seed effect runs with the
\* initialData it still holds, then the WebSocket effect resets lastCandleRef
SymbolChanges(sym) ==
  /\ sym # symbol
  /\ symbol' = sym
  /\ lastCandleRef' = None
  /\ SeedEffect(sym, initialData)
  /\ UNCHANGED <<interval, initialData, dropped>>

\* the hook is rendered with another interval: only the WebSocket effect runs
IntervalChanges(int) ==
  /\ int # interval
  /\ interval' = int
  /\ lastCandleRef' = None
  /\ UNCHANGED <<symbol, initialData, ohlcvData, indicators,
                 seedApplied, accepted, dropped>>

\* the aggregator rendered with another symbol
SetSymbol(sym) ==
  /\ UNCHANGED tvars
  /\ UNCHANGED tickvars
  /\ UNCHANGED <<fetches, appvars>>
  /\ UNCHANGED error
  /\ SymbolChanges(sym)

\* the aggregator rendered with another interval
SetInterval(int) ==
  /\ UNCHANGED tvars
  /\ UNCHANGED tickvars
  /\ UNCHANGED <<fetches, appvars>>
  /\ UNCHANGED error
  /\ IntervalChanges(int)

(* ------------------------------------------------------------------ *)
(* handleMessage                                                        *)
(* ------------------------------------------------------------------ *)

\* a validation that forgets the interval
PassesGuardIgnoresInterval(sym, int, m) == m.e = "kline" /\ m.s = sym

\* the message passes the validation of the handleMessage that was created
\* by the render with symbol sym and interval int
PassesGuard(sym, int, m) == m.e = "kline" /\ m.s = sym /\ m.i = int

\* const newCandle: OHLCV = {...}
NewCandle(m) == [timestamp |-> m.t, close |-> parseFloat(m.c)]

\* what the merge appends to `accepted`
Merged(m) ==
  [t |-> m.t, x |-> m.x, candle |-> NewCandle(m),
   prevLen |-> Len(ohlcvData),
   hitLast |-> Len(ohlcvData) > 0 /\ ohlcvData[Len(ohlcvData)].timestamp = m.t]

\* a capacity test that lets one bar too many through
OverCapacityOffByOne(updated) == Len(updated) > MAX_CANDLES + 1

\* updated.length > MAX_CANDLES
OverCapacity(updated) == Len(updated) > MAX_CANDLES

\* a lookback test that needs one bar too many
EnoughBarsOffByOne(updated) == Len(updated) > MIN_INDICATOR_BARS

\* updated.length >= 200
EnoughBars(updated) == Len(updated) >= MIN_INDICATOR_BARS

\* the updater passed to setOhlcvData, with its writes to lastCandleRef and
\* its call of setIndicators; sym is the symbol handleMessage closes over
MergeCandle(sym, m) ==
  LET newCandle == NewCandle(m)
      appended == Append(ohlcvData, newCandle)
  IN
  IF lastCandleRef = Some(newCandle.timestamp) /\ ~m.x
  THEN \* same candle, update in place
       /\ ohlcvData' = IF Len(ohlcvData) > 0
                       THEN ReplaceLast(ohlcvData, newCandle) ELSE ohlcvData
       /\ UNCHANGED <<lastCandleRef, indicators>>
  ELSE IF m.x
  THEN \* candle is closed, append
       /\ lastCandleRef' = Some(newCandle.timestamp)
       /\ IF OverCapacity(appended)
          THEN /\ ohlcvData' = SliceLast(appended, MAX_CANDLES)
               /\ UNCHANGED indicators
          ELSE /\ ohlcvData' = appended
               /\ indicators' = IF EnoughBars(appended)
                                THEN calculateAll(sym, appended)
                                ELSE indicators
  ELSE \* candle is forming, update the last candle
       /\ IF Len(ohlcvData) > 0
          THEN /\ ohlcvData' = ReplaceLast(ohlcvData, newCandle)
               /\ UNCHANGED lastCandleRef
          ELSE /\ ohlcvData' = appended
               /\ lastCandleRef' = Some(newCandle.timestamp)
       /\ UNCHANGED indicators

\* handleMessage(message) as created by the render with symbol sym and
\* interval int
handleMessage(sym, int, m) ==
  IF PassesGuard(sym, int, m)
  THEN /\ Len(accepted) < MaxMsgs
       /\ accepted' = Append(accepted, Merged(m))
       /\ dropped' = FALSE
       /\ error' = None
       /\ MergeCandle(sym, m)
       /\ UNCHANGED <<symbol, interval, initialData, seedApplied>>
  ELSE /\ dropped' = (m.e = "kline")
       /\ UNCHANGED <<symbol, interval, initialData, ohlcvData, indicators,
                      error, lastCandleRef, seedApplied, accepted>>

\* handleMessage(message) of the current subscription
HandleMessage(m) ==
  /\ UNCHANGED tvars
  /\ UNCHANGED tickvars
  /\ UNCHANGED <<fetches, appvars>>
  /\ handleMessage(symbol, interval, m)

\* handleError(wsError)
HandleError(code) ==
  /\ error' = Some(code)
  /\ UNCHANGED bufvars
  /\ UNCHANGED tvars
  /\ UNCHANGED tickvars
  /\ UNCHANGED <<fetches, appvars>>

\* reconnect() while wsClientRef.current is null
Reconnect ==
  /\ wsClientRef = 0
  /\ error' = None
  /\ UNCHANGED bufvars
  /\ UNCHANGED tvars
  /\ UNCHANGED tickvars
  /\ UNCHANGED <<fetches, appvars>>

Next ==
  \/ \E data \in Seeds : SetInitialData(data)
  \/ \E sym \in Symbols : SetSymbol(sym)
  \/ \E int \in Intervals : SetInterval(int)
  \/ \E m \in Messages : HandleMessage(m)
  \/ \E code \in TransportErrors : HandleError(code)
  \/ Reconnect

Spec == Init /\ [][Next]_vars

(* ------------------------------------------------------------------ *)
(* BinanceWebSocketClient                                               *)
(* ------------------------------------------------------------------ *)

\* the stream name `${symbol.toLowerCase()}@kline_${interval}`
StreamOf(sym, int) == [s |-> sym, i |-> int]

\* new BinanceWebSocketClient({streams: [stream], onMessage: handleMessage,
\* ...}): the fields of the instance, the symbol and interval the handleMessage
\* it was given closes over, and the number of its setTimeout callbacks that
\* have not run yet
NewClient(stream) ==
  [streams |-> stream, onMessage |-> stream, ws |-> 0,
   connectionState |-> "disconnected", reconnectTimeout |-> None,
   timers |-> 0]

\* the transports and sockets before a method or handler runs, and the
\* callbacks of config it has invoked so far
World == [clients |-> clients, sockets |-> sockets, out |-> << >>]

\* this.config.onStateChange / onError / onMessage is invoked
Notify(w, c, kind, value) ==
  [w EXCEPT !.out = Append(@, [client |-> c, kind |-> kind, value |-> value])]

\* an updateState that reports every call
updateStateAlways(w, c, state) ==
  Notify([w EXCEPT !.clients[c].connectionState = state], c, "state", state)

\* private updateState(state)
updateState(w, c, state) ==
  IF w.clients[c].connectionState # state
  THEN Notify([w EXCEPT !.clients[c].connectionState = state], c, "state", state)
  ELSE w

\* readyState === WebSocket.OPEN || readyState === WebSocket.CONNECTING
IsLive(socket) == socket.readyState \in {"OPEN", "CONNECTING"}

\* this.ws is a socket that is open or connecting
HasLiveSocket(w, c) ==
  w.clients[c].ws # 0 /\ IsLive(w.sockets[w.clients[c].ws])

\* a stream name that puts a fragment into the url
BadStream == [s |-> "#", i |-> "1d"]

\* new WebSocket(url) returns a socket; it throws for a url it cannot accept
Constructs(url) == url # BadStream

\* a connect that does not look at the socket it has
connectUnguarded(w, c) ==
  LET w1 == updateState(w, c, "connecting")
  IN  IF Constructs(w1.clients[c].streams)
      THEN [w1 EXCEPT
              !.sockets = Append(@, [owner |-> c,
                                     url |-> w1.clients[c].streams,
                                     readyState |-> "CONNECTING"]),
              !.clients[c].ws = Len(w1.sockets) + 1]
      ELSE Notify(updateState(w1, c, "error"), c, "error", "CREATE_ERROR")

\* connect()
connect(w, c) ==
  IF HasLiveSocket(w, c) THEN w
  ELSE LET w1 == updateState(w, c, "connecting")
       IN  IF Constructs(w1.clients[c].streams)
           THEN [w1 EXCEPT
                   !.sockets = Append(@, [owner |-> c,
                                          url |-> w1.clients[c].streams,
                                          readyState |-> "CONNECTING"]),
                   !.clients[c].ws = Len(w1.sockets) + 1]
           ELSE Notify(updateState(w1, c, "error"), c, "error", "CREATE_ERROR")

\* WebSocket.close(): a socket that is open or connecting starts closing
close(socket) ==
  IF IsLive(socket) THEN [socket EXCEPT !.readyState = "CLOSING"] ELSE socket

\* clearTimeout(this.reconnectTimeout); this.reconnectTimeout = null
clearReconnectTimeout(w, c) ==
  IF w.clients[c].reconnectTimeout # None
  THEN [w EXCEPT !.clients[c].timers = @ - 1,
                 !.clients[c].reconnectTimeout = None]
  ELSE w

\* a disconnect that leaves the socket as it is
disconnectKeepsSocket(w, c) ==
  LET w0 == clearReconnectTimeout(w, c)
  IN  IF w0.clients[c].ws # 0
      THEN [updateState(w0, c, "disconnecting") EXCEPT !.clients[c].ws = 0]
      ELSE w0

\* disconnect()
disconnect(w, c) ==
  LET w0 == clearReconnectTimeout(w, c)
      ws == w0.clients[c].ws
  IN  IF ws # 0
      THEN [updateState(w0, c, "disconnecting") EXCEPT
              !.sockets[ws] = close(@),
              !.clients[c].ws = 0]
      ELSE w0

\* setTimeout(() => { this.connect(); }, 500): the handle is not kept
setTimeout(w, c) == [w EXCEPT !.clients[c].timers = @ + 1]

\* a reconnect that schedules no connect()
reconnectForgets(w, c) == disconnect(w, c)

\* reconnect()
reconnect(w, c) == setTimeout(disconnect(w, c), c)

\* an updateStreams that leaves the connection as it is
updateStreamsKeepsSocket(w, c, streams) ==
  setTimeout([w EXCEPT !.clients[c].streams = streams], c)

\* updateStreams(streams)
updateStreams(w, c, streams) ==
  setTimeout(disconnect([w EXCEPT !.clients[c].streams = streams], c), c)

\* ws.onopen of socket s
onopen(w, s) ==
  updateState([w EXCEPT !.sockets[s].readyState = "OPEN"],
              w.sockets[s].owner, "connected")

\* ws.onerror of socket s
onerror(w, s) ==
  LET c == w.sockets[s].owner
  IN  Notify(updateState(w, c, "error"), c, "error", "CONNECTION_ERROR")

\* code of the close event of a connection that was lost
AbnormalClosure == 1006

\* `CLOSE_${event.code}` for the codes of the model
CloseCode(code) == CASE code = AbnormalClosure -> "CLOSE_1006"

\* an onclose that reports every close
oncloseAlwaysReports(w, s, wasClean) ==
  LET c == w.sockets[s].owner
      w1 == updateState([w EXCEPT !.sockets[s].readyState = "CLOSED"],
                        c, "disconnected")
  IN  Notify(w1, c, "error", CloseCode(AbnormalClosure))

\* ws.onclose of socket s
onclose(w, s, wasClean) ==
  LET c == w.sockets[s].owner
      w1 == updateState([w EXCEPT !.sockets[s].readyState = "CLOSED"],
                        c, "disconnected")
  IN  IF ~wasClean
      THEN Notify(w1, c, "error", CloseCode(AbnormalClosure))
      ELSE w1

\* a JSON.parse that returns a message for any text
JSONparseLenient(frame) == Some(frame.message)

\* JSON.parse(event.data): the message, or none when it throws
JSONparse(frame) == IF frame.parses THEN Some(frame.message) ELSE None

\* ws.onmessage of socket s, up to the call of config.onMessage
onmessage(w, s, frame) ==
  LET c == w.sockets[s].owner
  IN  IF JSONparse(frame) # None
      THEN Notify(w, c, "message", JSONparse(frame)[1].e)
      ELSE Notify(w, c, "error", "PARSE_ERROR")

\* the method or handler has run: its effects on the transports
Transport(after) ==
  \E w \in {after} :
    /\ clients' = w.clients
    /\ sockets' = w.sockets
    /\ emitted' = w.out

(* ------------------------------------------------------------------ *)
(* One transport driven through its public methods                      *)
(* ------------------------------------------------------------------ *)

\* what the caller of a transport asked for last:
\*   quiet    a socket closed without being asked to, and the caller has not
\*            called a method of the transport since
\*   stopped  the caller's last call was disconnect()
\*   burst    connection attempts made since the caller began calling
\*            reconnect(), while nothing else was called
NoHistory == [quiet |-> FALSE, stopped |-> FALSE, burst |-> None]

\* the streams the caller subscribes to
StreamChoices == {StreamOf("BTCUSDT", "1d"), StreamOf("ETHUSDT", "1d"),
                  BadStream}

\* the frames a socket receives: the text of an update of one bar, and text
\* that is not JSON
Frames ==
  {f \in [parses : BOOLEAN,
          message : {m \in Messages : m.e = "kline" /\ m.t = MAX_CANDLES}] :
     ~f.parses => f.message.x}

\* the frames the server sends on a socket opened with the given url
FramesOf(url) == {f \in Frames : f.message.s = url.s /\ f.message.i = url.i}

\* the hook and its page are left alone
HookUnchanged ==
  UNCHANGED <<symbol, interval, initialData, ohlcvData, indicators, error,
              lastCandleRef, seedApplied, accepted, dropped, wsClientRef,
              connectionState, sinceSwitch, symbols, prices, fetches,
              appvars>>

\* connect() may run: it is a no-op, or the model has a socket left
MayConnect(c) ==
  \/ HasLiveSocket(World, c)
  \/ ~Constructs(clients[c].streams)
  \/ Len(sockets) < MaxSockets

TransportInit ==
  /\ NoFetches
  /\ AppInit
  /\ HookInit
  /\ clients = << NewClient(StreamOf("BTCUSDT", "1d")) >>
  /\ sockets = << >>
  /\ wsClientRef = 0
  /\ connectionState = "disconnected"
  /\ emitted = << >>
  /\ history = << NoHistory >>
  /\ sinceSwitch = None

\* the caller calls connect()
Connect(c) ==
  /\ MayConnect(c)
  /\ Transport(connect(World, c))
  /\ history' = [history EXCEPT ![c] = NoHistory]
  /\ HookUnchanged

\* the caller calls disconnect()
Disconnect(c) ==
  /\ Transport(disconnect(World, c))
  /\ history' = [history EXCEPT ![c] = [NoHistory EXCEPT !.stopped = TRUE]]
  /\ HookUnchanged

\* the caller calls reconnect()
CallReconnect(c) ==
  /\ clients[c].timers < MaxTimers
  /\ Transport(reconnect(World, c))
  /\ history' = [history EXCEPT
                   ![c].quiet = FALSE,
                   ![c].stopped = FALSE,
                   ![c].burst = IF @ = None \/ clients[c].timers = 0
                                THEN Some(0) ELSE @]
  /\ HookUnchanged

\* the caller calls updateStreams(streams)
UpdateStreams(c, streams) ==
  /\ clients[c].timers < MaxTimers
  /\ Transport(updateStreams(World, c, streams))
  /\ history' = [history EXCEPT ![c] = NoHistory]
  /\ HookUnchanged

\* a callback scheduled by reconnect() or updateStreams() runs
timerFires(w, c) ==
  connect([w EXCEPT !.clients[c].timers = @ - 1], c)

\* the settling delay of a reconnect() or updateStreams() elapses
TimerFires(c) ==
  /\ clients[c].timers > 0
  /\ MayConnect(c)
  /\ Transport(timerFires(World, c))
  /\ history' = [history EXCEPT
                   ![c].burst = IF @ # None /\ ~HasLiveSocket(World, c)
                                   /\ @[1] < MaxAttempts
                                THEN Some(@[1] + 1) ELSE @]
  /\ HookUnchanged

\* the connection of socket s is established
SocketOpens(s) ==
  /\ sockets[s].readyState = "CONNECTING"
  /\ Transport(onopen(World, s))
  /\ UNCHANGED history
  /\ HookUnchanged

\* socket s is closed: by the server or the network while it is open, or at
\* the end of the closing handshake that close() started
SocketCloses(s, wasClean) ==
  /\ sockets[s].readyState \in {"OPEN", "CLOSING"}
  /\ Transport(onclose(World, s, wasClean))
  /\ history' = [history EXCEPT
                   ![sockets[s].owner].quiet =
                      IF sockets[s].readyState = "OPEN" THEN TRUE ELSE @]
  /\ HookUnchanged

\* the connection of socket s fails: the error event, then the close event
socketFails(w, s) == onclose(onerror(w, s), s, FALSE)

\* the connection of socket s fails before or after it was established
SocketFails(s) ==
  /\ IsLive(sockets[s])
  /\ Transport(socketFails(World, s))
  /\ history' = [history EXCEPT ![sockets[s].owner].quiet = TRUE]
  /\ HookUnchanged

\* socket s receives a frame
Receives(s, frame) ==
  /\ sockets[s].readyState = "OPEN"
  /\ Transport(onmessage(World, s, frame))
  /\ UNCHANGED history
  /\ HookUnchanged

TransportNext ==
  \/ \E c \in 1..Len(clients) : Connect(c)
  \/ \E c \in 1..Len(clients) : Disconnect(c)
  \/ \E c \in 1..Len(clients) : CallReconnect(c)
  \/ \E c \in 1..Len(clients), streams \in StreamChoices : UpdateStreams(c, streams)
  \/ \E c \in 1..Len(clients) : TimerFires(c)
  \/ \E s \in 1..Len(sockets) : SocketOpens(s)
  \/ \E s \in 1..Len(sockets), wasClean \in BOOLEAN : SocketCloses(s, wasClean)
  \/ \E s \in 1..Len(sockets) : SocketFails(s)
  \/ \E s \in 1..Len(sockets) :
       \E frame \in FramesOf(sockets[s].url) : Receives(s, frame)

TransportSpec == TransportInit /\ [][TransportNext]_vars

(* ------------------------------------------------------------------ *)
(* The hook with the transports it creates and abandons                 *)
(* ------------------------------------------------------------------ *)

\* the historical sequences of the page while subscriptions change: answers
\* for a pair that has few bars
SwitchSeeds == {MakeSeed(2, 100), MakeSeed(3, 110)}

\* handleStateChange(state) for every state reported: setConnectionState
StateAfter(out) ==
  LET states == SelectSeq(out, LAMBDA n : n.kind = "state")
  IN  IF states = << >> THEN connectionState
      ELSE states[Len(states)].value

\* handleError(wsError) for every error reported: setError
ErrorAfter(current, out) ==
  LET errors == SelectSeq(out, LAMBDA n : n.kind = "error")
  IN  IF errors = << >> THEN current
      ELSE Some(errors[Len(errors)].value)

\* the transports have run a method or handler that reports states and
\* errors to the hook
Reported(after) ==
  /\ Transport(after)
  /\ connectionState' = StateAfter(emitted')
  /\ error' = ErrorAfter(error, emitted')

\* the cleanup of the WebSocket effect, then the effect itself for the given
\* subscription: disconnect the old transport, construct and connect a new
\* one
resubscribe(w, sym, int) ==
  LET w1 == IF wsClientRef # 0 THEN disconnect(w, wsClientRef) ELSE w
      w2 == [w1 EXCEPT !.clients = Append(@, NewClient(StreamOf(sym, int)))]
  IN  connect(w2, Len(w2.clients))

\* the WebSocket effect runs again
Resubscribed(sym, int) ==
  /\ Len(clients) < MaxClients
  /\ Len(sockets) < MaxSockets
  /\ Reported(resubscribe(World, sym, int))
  /\ wsClientRef' = Len(clients) + 1
  /\ history' = Append(history, NoHistory)
  /\ sinceSwitch' = Some(0)
  /\ UNCHANGED tickvars
  /\ UNCHANGED appvars

\* the hook after its mount: the WebSocket effect has constructed and
\* connected the first transport, the page's first fetch is under way
Mounted ==
  LET w == connect([clients |-> << NewClient(StreamOf("BTCUSDT", "1d")) >>,
                    sockets |-> << >>, out |-> << >>], 1)
  IN  /\ HookInit
      /\ clients = w.clients
      /\ sockets = w.sockets
      /\ emitted = w.out
      /\ wsClientRef = 1
      /\ connectionState = "connecting"
      /\ history = << NoHistory >>
      /\ sinceSwitch = None

SwitchInit ==
  /\ NoFetches
  /\ AppInit
  /\ Mounted

\* the page selects another symbol
SwitchSymbol(sym) ==
  /\ UNCHANGED fetches
  /\ Resubscribed(sym, interval)
  /\ SymbolChanges(sym)

\* the hook is given another interval
SwitchInterval(int) ==
  /\ UNCHANGED fetches
  /\ Resubscribed(symbol, int)
  /\ IntervalChanges(int)

\* the page's fetch of the historical bars completes
SeedArrives(data) ==
  /\ sinceSwitch' = None
  /\ UNCHANGED <<clients, sockets, wsClientRef, connectionState, emitted,
                 history, error>>
  /\ UNCHANGED tickvars
  /\ UNCHANGED <<fetches, appvars>>
  /\ InitialDataChanges(data)

\* reconnect() of the hook
ReconnectClient ==
  /\ wsClientRef # 0
  /\ clients[wsClientRef].timers < MaxTimers
  /\ Transport(reconnect(World, wsClientRef))
  /\ connectionState' = StateAfter(emitted')
  /\ error' = None
  /\ UNCHANGED bufvars
  /\ UNCHANGED <<wsClientRef, history, sinceSwitch>>
  /\ UNCHANGED tickvars
  /\ UNCHANGED <<fetches, appvars>>

\* the settling delay of a reconnect() elapses, for any transport
ClientTimerFires(c) ==
  /\ clients[c].timers > 0
  /\ MayConnect(c)
  /\ Reported(timerFires(World, c))
  /\ UNCHANGED bufvars
  /\ UNCHANGED <<wsClientRef, history, sinceSwitch>>
  /\ UNCHANGED tickvars
  /\ UNCHANGED <<fetches, appvars>>

\* the connection of socket s is established
ClientSocketOpens(s) ==
  /\ sockets[s].readyState = "CONNECTING"
  /\ Reported(onopen(World, s))
  /\ UNCHANGED bufvars
  /\ UNCHANGED <<wsClientRef, history, sinceSwitch>>
  /\ UNCHANGED tickvars
  /\ UNCHANGED <<fetches, appvars>>

\* socket s is closed
ClientSocketCloses(s, wasClean) ==
  /\ sockets[s].readyState \in {"OPEN", "CLOSING"}
  /\ Reported(onclose(World, s, wasClean))
  /\ UNCHANGED bufvars
  /\ UNCHANGED <<wsClientRef, history, sinceSwitch>>
  /\ UNCHANGED tickvars
  /\ UNCHANGED <<fetches, appvars>>

\* the connection of socket s fails
ClientSocketFails(s) ==
  /\ IsLive(sockets[s])
  /\ Reported(socketFails(World, s))
  /\ UNCHANGED bufvars
  /\ UNCHANGED <<wsClientRef, history, sinceSwitch>>
  /\ UNCHANGED tickvars
  /\ UNCHANGED <<fetches, appvars>>

\* socket s receives a frame: its transport hands the message to the
\* handleMessage it was constructed with
Deliver(s, frame) ==
  LET onMessage == clients[sockets[s].owner].onMessage
  IN  /\ sockets[s].readyState = "OPEN"
      /\ Transport(onmessage(World, s, frame))
      /\ UNCHANGED <<wsClientRef, connectionState, history>>
      /\ UNCHANGED tickvars
      /\ UNCHANGED <<fetches, appvars>>
      /\ IF JSONparse(frame) # None
         THEN LET m == JSONparse(frame)[1]
              IN  /\ sinceSwitch' =
                       IF sinceSwitch # None /\ PassesGuard(onMessage.s, onMessage.i, m)
                       THEN Some(sinceSwitch[1] + 1) ELSE sinceSwitch
                  /\ handleMessage(onMessage.s, onMessage.i, m)
         ELSE /\ error' = Some("PARSE_ERROR")
              /\ UNCHANGED sinceSwitch
              /\ UNCHANGED bufvars

SwitchNext ==
  \/ \E sym \in Symbols : SwitchSymbol(sym)
  \/ \E int \in Intervals : SwitchInterval(int)
  \/ \E data \in SwitchSeeds : SeedArrives(data)
  \/ ReconnectClient
  \/ \E c \in 1..Len(clients) : ClientTimerFires(c)
  \/ \E s \in 1..Len(sockets) : ClientSocketOpens(s)
  \/ \E s \in 1..Len(sockets), wasClean \in BOOLEAN : ClientSocketCloses(s, wasClean)
  \/ \E s \in 1..Len(sockets) : ClientSocketFails(s)
  \/ \E s \in 1..Len(sockets) :
       \E frame \in FramesOf(sockets[s].url) : Deliver(s, frame)

SwitchSpec == SwitchInit /\ [][SwitchNext]_vars

(* ------------------------------------------------------------------ *)
(* The ticker hook with the transports it creates and abandons          *)
(* ------------------------------------------------------------------ *)

\* the watchlists the page hands to the hook: no pair twice, BTCUSDT added
\* before ETHUSDT
SymbolLists ==
  {<< >>} \cup {<<a>> : a \in Symbols} \cup {<<"BTCUSDT", "ETHUSDT">>}

\* symbols.includes(sym)
Includes(list, sym) == \E k \in 1..Len(list) : list[k] = sym

\* symbols.map(symbol => `${symbol.toLowerCase()}@ticker`)
TickerStreams(list) == [s |-> list, i |-> "ticker"]

\* WebSocketMessage<BinanceTickerStream>: whether it has a data member, and
\* data.e, data.s, data.c (for a message without data: what it carries
\* elsewhere); one message for each symbol that has no data, and one of
\* each other event type
TickerMessages ==
  {m \in [data : BOOLEAN, e : EventTypes, s : Symbols, c : TickerPrices] :
     (~m.data \/ m.e # "24hrTicker") => (m.c = "105" /\ (m.data \/ m.e = "24hrTicker"))}

\* the frames a socket of the ticker hook receives: the text of a message,
\* and text that is not JSON
TickerFrames ==
  {f \in [parses : BOOLEAN, message : TickerMessages] :
     ~f.parses => (f.message.data /\ f.message.e = "24hrTicker"
                   /\ f.message.c = "105")}

\* the frames the server sends on a socket opened with the given url
TickerFramesOf(url) == {f \in TickerFrames : Includes(url.s, f.message.s)}

\* convertTickerToCryptoPrice(ticker): symbol and price (the other numbers
\* of the snapshot are converted like price)
convertTickerToCryptoPrice(ticker) ==
  [symbol |-> ticker.s, price |-> parseFloat(ticker.c)]

\* prev.findIndex(p => p.symbol === sym), counted from 1; 0 when not found
findIndex(prev, sym) ==
  IF \E k \in 1..Len(prev) : prev[k].symbol = sym
  THEN CHOOSE k \in 1..Len(prev) :
         /\ prev[k].symbol = sym
         /\ \A j \in 1..(k - 1) : prev[j].symbol # sym
  ELSE 0

\* an updater that appends every snapshot
UpdatePricesAppends(prev, newPrice) == Append(prev, newPrice)

\* the updater handed to setPrices by handleMessage
UpdatePrices(prev, newPrice) ==
  LET existingIndex == findIndex(prev, newPrice.symbol)
  IN  IF existingIndex >= 1
      THEN [prev EXCEPT ![existingIndex] = newPrice]
      ELSE Append(prev, newPrice)

\* a validation that looks for the data member only
IsTickerAnyEvent(m) == m.data

\* wsMessage.data && wsMessage.data.e === '24hrTicker'
IsTicker(m) == m.data /\ m.e = "24hrTicker"

\* handleMessage(message) of the ticker hook
handleTickerMessage(m) ==
  IF ~IsTicker(m)
  THEN UNCHANGED <<prices, error>>
  ELSE /\ prices' = UpdatePrices(prices, convertTickerToCryptoPrice(m))
       /\ error' = None

\* a prune effect that keeps every snapshot
PrunedKeepsAll(prev, list) == prev

\* prev.filter(price => symbols.includes(price.symbol))
Pruned(prev, list) == SelectSeq(prev, LAMBDA price : Includes(list, price.symbol))

\* the cleanup of the WebSocket effect, then the effect itself for the given
\* symbols: disconnect the old transport; construct and connect a new one
\* unless the list is empty
tickerResubscribe(w, list) ==
  LET w1 == IF wsClientRef # 0 THEN disconnect(w, wsClientRef) ELSE w
      w2 == [w1 EXCEPT !.clients = Append(@, NewClient(TickerStreams(list)))]
  IN  IF Len(list) = 0 THEN w1 ELSE connect(w2, Len(w2.clients))

\* the hook is rendered with another symbols array (the page: setWatchlistPairs):
\* the prune effect and the WebSocket effect run
SymbolsChange(list) ==
  /\ Len(list) = 0 \/ (Len(clients) < MaxClients /\ Len(sockets) < MaxSockets)
  /\ symbols' = list
  /\ prices' = IF Len(list) = 0 THEN << >> ELSE Pruned(prices, list)
  /\ Reported(tickerResubscribe(World, list))
  /\ wsClientRef' = IF Len(list) = 0 THEN 0 ELSE Len(clients) + 1
  /\ history' = IF Len(list) = 0 THEN history ELSE Append(history, NoHistory)
  /\ UNCHANGED bufvars
  /\ UNCHANGED sinceSwitch
  /\ UNCHANGED <<fetches, appvars>>

\* reconnect() of the ticker hook
ReconnectPrices ==
  /\ wsClientRef # 0 => clients[wsClientRef].timers < MaxPending
  /\ Transport(IF wsClientRef # 0 THEN reconnect(World, wsClientRef) ELSE World)
  /\ connectionState' = StateAfter(emitted')
  /\ error' = None
  /\ UNCHANGED bufvars
  /\ UNCHANGED <<wsClientRef, history, sinceSwitch>>
  /\ UNCHANGED tickvars
  /\ UNCHANGED <<fetches, appvars>>

\* socket s receives a frame: its transport hands the message to the
\* handleMessage of the ticker hook
DeliverTicker(s, frame) ==
  /\ sockets[s].readyState = "OPEN"
  /\ Transport(onmessage(World, s, frame))
  /\ UNCHANGED <<wsClientRef, connectionState, history, sinceSwitch>>
  /\ UNCHANGED bufvars
  /\ UNCHANGED symbols
  /\ UNCHANGED <<fetches, appvars>>
  /\ IF JSONparse(frame) # None
     THEN handleTickerMessage(JSONparse(frame)[1])
     ELSE /\ error' = Some("PARSE_ERROR")
          /\ UNCHANGED prices

TickerNext ==
  \/ \E list \in SymbolLists : SymbolsChange(list)
  \/ ReconnectPrices
  \/ \E c \in 1..Len(clients) : ClientTimerFires(c)
  \/ \E s \in 1..Len(sockets) : ClientSocketOpens(s)
  \/ \E s \in 1..Len(sockets), wasClean \in BOOLEAN : ClientSocketCloses(s, wasClean)
  \/ \E s \in 1..Len(sockets) : ClientSocketFails(s)
  \/ \E s \in 1..Len(sockets) :
       \E frame \in TickerFramesOf(sockets[s].url) : DeliverTicker(s, frame)

\* the ticker hook from its mount with an empty watchlist: no transport yet
TickerSpec == Init /\ [][TickerNext]_vars

(* ------------------------------------------------------------------ *)
(* The page: the historical fetches of Home and the chart's hook       *)
(* ------------------------------------------------------------------ *)

\* the bars /api/crypto/historical answers with for a symbol: data.data.data
SeedFor(sym) ==
  IF sym = "BTCUSDT" THEN MakeSeed(2, 100) ELSE MakeSeed(3, 110)

\* s without its entry k
RemoveAt(s, k) == SubSeq(s, 1, k - 1) \o SubSeq(s, k + 1, Len(s))

\* Home after its mount: selectedSymbol is 'BTCUSDT', the effect on
\* selectedSymbol has called fetchHistoricalData for it
PageInit ==
  /\ fetches = << "BTCUSDT" >>
  /\ AppInit
  /\ Mounted

\* setSelectedSymbol(sym): the hook is rendered with the symbol and the effect
\* on selectedSymbol calls fetchHistoricalData(sym)
SelectSymbol(sym) ==
  /\ Len(fetches) < MaxFetches
  /\ fetches' = Append(fetches, sym)
  /\ Resubscribed(sym, interval)
  /\ SymbolChanges(sym)

\* the response of fetch k arrives, whichever was started first:
\* setInitialHistoricalData(data.data.data)
FetchCompletes(k) ==
  /\ fetches' = RemoveAt(fetches, k)
  /\ sinceSwitch' = None
  /\ UNCHANGED <<clients, sockets, wsClientRef, connectionState, emitted,
                 history, error>>
  /\ UNCHANGED tickvars
  /\ UNCHANGED appvars
  /\ InitialDataChanges(SeedFor(fetches[k]))

PageNext ==
  \/ \E sym \in Symbols : SelectSymbol(sym)
  \/ \E k \in 1..Len(fetches) : FetchCompletes(k)
  \/ \E s \in 1..Len(sockets) : ClientSocketOpens(s)
  \/ \E s \in 1..Len(sockets), wasClean \in BOOLEAN : ClientSocketCloses(s, wasClean)
  \/ \E s \in 1..Len(sockets) : ClientSocketFails(s)
  \/ \E s \in 1..Len(sockets) :
       \E frame \in FramesOf(sockets[s].url) : Deliver(s, frame)

PageSpec == PageInit /\ [][PageNext]_vars

(* ------------------------------------------------------------------ *)
(* The watchlist storage                                                *)
(* ------------------------------------------------------------------ *)

DEFAULT_PAIRS == <<"SOLUSDT", "BTCUSDT", "ETHUSDT", "LTCUSDT">>

MAX_WATCHLIST_SIZE == 10

MIN_WATCHLIST_SIZE == 1

\* trading pairs, the defaults first
KnownPairs ==
  DEFAULT_PAIRS \o <<"BNBUSDT", "XRPUSDT", "ADAUSDT", "DOGEUSDT", "DOTUSDT",
                     "AVAXUSDT", "LINKUSDT">>

\* the watchlists a session may start with: 1 to 10 distinct pairs
StoredLists ==
  {SubSeq(KnownPairs, 1, n) : n \in MIN_WATCHLIST_SIZE..MAX_WATCHLIST_SIZE}

\* the pairs the calls are made with: a default, the tenth and the eleventh
OpPairs == {"SOLUSDT", "AVAXUSDT", "LINKUSDT"}

\* loadWatchlist() with the given item in sessionStorage: the item is the
\* WatchlistConfig that JSON.parse gives back, without its lastUpdated
loadWatchlist(item) ==
  IF item = None THEN DEFAULT_PAIRS
  ELSE IF Len(item.pairs) = 0 THEN DEFAULT_PAIRS
  ELSE item.pairs

\* saveWatchlist(pairs): the item after the call and what it returns; setItem
\* throws when the storage refuses the write
saveWatchlist(item, pairs, accepts) ==
  IF accepts THEN [item |-> [pairs |-> pairs], success |-> TRUE]
  ELSE [item |-> item, success |-> FALSE]

\* what a call leaves: the item, how the call ended, the value returned and
\* whether setItem has written
Outcome(item, outcome, value, wrote) ==
  [item |-> item, outcome |-> outcome, value |-> value, wrote |-> wrote]

\* an addToWatchlist without the size check
addToWatchlistUnbounded(item, pair, accepts) ==
  LET currentPairs == loadWatchlist(item)
      updatedPairs == Append(currentPairs, pair)
      saved == saveWatchlist(item, updatedPairs, accepts)
  IN  IF Includes(currentPairs, pair)
      THEN Outcome(item, "returned", currentPairs, FALSE)
      ELSE IF saved.success
      THEN Outcome(saved.item, "returned", updatedPairs, TRUE)
      ELSE Outcome(saved.item, "null", None, FALSE)

\* addToWatchlist(pair)
addToWatchlist(item, pair, accepts) ==
  LET currentPairs == loadWatchlist(item)
      updatedPairs == Append(currentPairs, pair)
      saved == saveWatchlist(item, updatedPairs, accepts)
  IN  IF Includes(currentPairs, pair)
      THEN Outcome(item, "returned", currentPairs, FALSE)
      ELSE IF Len(currentPairs) >= MAX_WATCHLIST_SIZE
      THEN Outcome(item, "threw", None, FALSE)
      ELSE IF saved.success
      THEN Outcome(saved.item, "returned", updatedPairs, TRUE)
      ELSE Outcome(saved.item, "null", None, FALSE)

\* a removeFromWatchlist that checks the size before the membership
removeChecksSizeFirst(item, pair, accepts) ==
  LET currentPairs == loadWatchlist(item)
      updatedPairs == SelectSeq(currentPairs, LAMBDA p : p # pair)
      saved == saveWatchlist(item, updatedPairs, accepts)
  IN  IF Len(currentPairs) <= MIN_WATCHLIST_SIZE
      THEN Outcome(item, "threw", None, FALSE)
      ELSE IF ~Includes(currentPairs, pair)
      THEN Outcome(item, "returned", currentPairs, FALSE)
      ELSE IF saved.success
      THEN Outcome(saved.item, "returned", updatedPairs, TRUE)
      ELSE Outcome(saved.item, "null", None, FALSE)

\* removeFromWatchlist(pair)
removeFromWatchlist(item, pair, accepts) ==
  LET currentPairs == loadWatchlist(item)
      updatedPairs == SelectSeq(currentPairs, LAMBDA p : p # pair)
      saved == saveWatchlist(item, updatedPairs, accepts)
  IN  IF ~Includes(currentPairs, pair)
      THEN Outcome(item, "returned", currentPairs, FALSE)
      ELSE IF Len(currentPairs) <= MIN_WATCHLIST_SIZE
      THEN Outcome(item, "threw", None, FALSE)
      ELSE IF saved.success
      THEN Outcome(saved.item, "returned", updatedPairs, TRUE)
      ELSE Outcome(saved.item, "null", None, FALSE)

\* the variables the watchlist calls leave alone
WatchUnchanged ==
  /\ UNCHANGED <<symbol, interval, initialData, ohlcvData, indicators, error,
                 lastCandleRef, seedApplied, accepted, dropped>>
  /\ UNCHANGED tvars
  /\ UNCHANGED tickvars
  /\ UNCHANGED <<fetches, now, histvars, uservars, cachevars>>

\* a session starts with nothing stored or with a watchlist stored before
WatchlistInit ==
  /\ NoFetches
  /\ Unmounted
  /\ stored \in {None} \cup {[pairs |-> list] : list \in StoredLists}
  /\ lastOp = None
  /\ now = 0
  /\ HistIdle
  /\ UserIdle
  /\ CacheIdle

\* a call of addToWatchlist(pair)
CallAdd(pair, accepts) ==
  \E r \in {addToWatchlist(stored, pair, accepts)} :
    /\ stored' = r.item
    /\ lastOp' = [op |-> "add", pair |-> pair, outcome |-> r.outcome,
                  value |-> r.value, wrote |-> r.wrote]
    /\ WatchUnchanged

\* a call of removeFromWatchlist(pair)
CallRemove(pair, accepts) ==
  \E r \in {removeFromWatchlist(stored, pair, accepts)} :
    /\ stored' = r.item
    /\ lastOp' = [op |-> "remove", pair |-> pair, outcome |-> r.outcome,
                  value |-> r.value, wrote |-> r.wrote]
    /\ WatchUnchanged

WatchlistNext ==
  \/ \E pair \in OpPairs, accepts \in BOOLEAN : CallAdd(pair, accepts)
  \/ \E pair \in OpPairs, accepts \in BOOLEAN : CallRemove(pair, accepts)

WatchlistSpec == WatchlistInit /\ [][WatchlistNext]_vars

(* ------------------------------------------------------------------ *)
(* The route /api/crypto/historical                                     *)
(* ------------------------------------------------------------------ *)

\* CACHE_DURATION of the route, in seconds
HISTORICAL_CACHE_DURATION == 300

\* the values of the limit parameter
Limits == {2, 3}

\* the bars the exchange holds for a symbol; they stay as they are during a
\* run
Market(sym) == MakeSeed(3, IF sym = "BTCUSDT" THEN 100 ELSE 110)

\* binanceService.getHistoricalData(symbol, interval, limit): the last limit
\* bars
getHistoricalData(sym, int, limit) ==
  [symbol |-> sym, interval |-> int, data |-> SliceLast(Market(sym), limit)]

\* the cached document is fresh enough
IsFresh(cached, time) ==
  time - cached.updatedAt < HISTORICAL_CACHE_DURATION * 1000

\* the clock advances by half the cache duration
HistStep == (HISTORICAL_CACHE_DURATION * 1000) \div 2

\* the variables the route leaves alone
HistUnchanged ==
  /\ UNCHANGED <<symbol, interval, initialData, ohlcvData, indicators, error,
                 lastCandleRef, seedApplied, accepted, dropped>>
  /\ UNCHANGED tvars
  /\ UNCHANGED tickvars
  /\ UNCHANGED <<fetches, watchvars, uservars, cachevars>>

HistoricalInit ==
  /\ NoFetches
  /\ Unmounted
  /\ AppInit

\* the response the route gives
HistoricalResponse(sym, limit, status, cached, data) ==
  [symbol |-> sym, limit |-> limit, status |-> status, cached |-> cached,
   data |-> data]

\* GET /api/crypto/historical?interval=1d&limit=limit, with the symbol
\* parameter param or without it; answers:
\* the cache lookup returns within its 3 seconds and does not throw;
\* upstream: the request to the exchange succeeds
GetHistorical(param, limit, answers, upstream) ==
  LET sym == IF param = None THEN "" ELSE param[1]
      key == <<sym, "1d">>
      cached == IF answers THEN priceCache[key] ELSE None
      data == getHistoricalData(sym, "1d", limit)
  IN  /\ HistUnchanged
      /\ UNCHANGED <<now, priceCache>>
      /\ IF param = None
         THEN /\ histResponse' = HistoricalResponse(sym, limit, 400, FALSE, None)
              /\ UNCHANGED cacheUpdates
         ELSE IF cached # None /\ IsFresh(cached, now)
         THEN /\ histResponse' =
                   HistoricalResponse(sym, limit, 200, TRUE, cached.data)
              /\ UNCHANGED cacheUpdates
         ELSE IF ~upstream
         THEN /\ histResponse' = HistoricalResponse(sym, limit, 500, FALSE, None)
              /\ UNCHANGED cacheUpdates
         ELSE /\ histResponse' =
                   HistoricalResponse(sym, limit, 200, FALSE, data.data)
              /\ cacheUpdates' =
                   cacheUpdates \cup {[key |-> key, data |-> data.data]}

\* an updateCache() in flight writes its document
CacheUpdateLands(u) ==
  /\ priceCache' = [priceCache EXCEPT
                      ![u.key] = [data |-> u.data, updatedAt |-> now]]
  /\ cacheUpdates' = cacheUpdates \ {u}
  /\ UNCHANGED <<now, histResponse>>
  /\ HistUnchanged

\* an updateCache() in flight times out or fails
CacheUpdateLost(u) ==
  /\ cacheUpdates' = cacheUpdates \ {u}
  /\ UNCHANGED <<now, priceCache, histResponse>>
  /\ HistUnchanged

\* time passes on the server
HistTick ==
  /\ now + HistStep <= MaxTicks * HistStep
  /\ now' = now + HistStep
  /\ UNCHANGED histvars
  /\ HistUnchanged

HistoricalNext ==
  \/ \E param \in {None} \cup {Some(sym) : sym \in Symbols} :
       \E limit \in Limits, answers, upstream \in BOOLEAN :
         GetHistorical(param, limit, answers, upstream)
  \/ \E u \in cacheUpdates : CacheUpdateLands(u)
  \/ \E u \in cacheUpdates : CacheUpdateLost(u)
  \/ HistTick

HistoricalSpec == HistoricalInit /\ [][HistoricalNext]_vars

(* ------------------------------------------------------------------ *)
(* The account routes /api/user/api-key and /api/analysis/generate      *)
(* ------------------------------------------------------------------ *)

\* API keys are strings, modelled by their characters
ClaudePrefix == <<"s", "k", "-">>

GeminiPrefix == <<"A", "I", "z", "a">>

\* the keys a request may carry: none and one of each form
ApiKeys ==
  {NoKey, ClaudePrefix \o <<"1">>, GeminiPrefix \o <<"1">>}

\* the aiProvider a request may carry; "" when the body has none
Providers == {"", "claude", "gemini"}

\* key.startsWith(prefix)
startsWith(key, prefix) ==
  /\ Len(key) >= Len(prefix)
  /\ SubSeq(key, 1, Len(prefix)) = prefix

\* aiProvider || 'claude'
OrClaude(provider) == IF provider = "" THEN "claude" ELSE provider

ANALYSIS_CACHE_DURATION == 300

\* the clock advances by half the cache duration
UserStep == (ANALYSIS_CACHE_DURATION * 1000) \div 2

\* the variables the account routes leave alone
UserUnchanged ==
  /\ UNCHANGED <<symbol, interval, initialData, ohlcvData, indicators, error,
                 lastCandleRef, seedApplied, accepted, dropped>>
  /\ UNCHANGED tvars
  /\ UNCHANGED tickvars
  /\ UNCHANGED <<fetches, watchvars, histvars, cachevars>>

UserInit ==
  /\ NoFetches
  /\ Unmounted
  /\ AppInit

\* the status POST /api/user/api-key answers with
PostKeyStatus(authenticated, apiKey, aiProvider, db) ==
  IF ~authenticated THEN 401
  ELSE IF apiKey = NoKey THEN 400
  ELSE IF aiProvider = "claude" /\ ~startsWith(apiKey, ClaudePrefix) THEN 400
  ELSE IF aiProvider = "gemini" /\ ~startsWith(apiKey, GeminiPrefix) THEN 400
  ELSE IF ~db THEN 500
  ELSE 200

\* POST /api/user/api-key with body { apiKey, aiProvider }; db: the database
\* answers, which matters to the requests that reach it
PostApiKey(authenticated, apiKey, aiProvider, db) ==
  \E status \in {PostKeyStatus(authenticated, apiKey, aiProvider, db)} :
    /\ ~db => authenticated
    /\ keyResponse' = status
    /\ user' = IF status = 200
               THEN [anthropicApiKey |-> apiKey,
                     aiProvider |-> OrClaude(aiProvider)]
               ELSE user
    /\ UNCHANGED <<now, analyses, aiCalls, genResponse>>
    /\ UserUnchanged

\* DELETE /api/user/api-key
DeleteApiKey(authenticated, db) ==
  \E status \in {IF ~authenticated THEN 401 ELSE IF ~db THEN 500 ELSE 200} :
    /\ ~db => authenticated
    /\ keyResponse' = status
    /\ user' = IF status = 200
               THEN [anthropicApiKey |-> NoKey, aiProvider |-> ""]
               ELSE user
    /\ UNCHANGED <<now, analyses, aiCalls, genResponse>>
    /\ UserUnchanged

\* the bodies of a request to /api/analysis/generate: one that is not JSON,
\* one without a symbol, one with a symbol
Bodies ==
  {[parses |-> FALSE, symbol |-> None, forceRefresh |-> FALSE],
   [parses |-> TRUE, symbol |-> None, forceRefresh |-> FALSE]}
    \cup [parses : {TRUE}, symbol : {Some("BTCUSDT")}, forceRefresh : BOOLEAN]

\* where a request may fail: the database, the exchange or the indicators,
\* the AI provider, the write of the record
Faults == {"none", "db", "market", "ai", "create"}

\* a check of the stored key that always passes
HasApiKeyAlways(u) ==
  TRUE

\* user.anthropicApiKey is set
HasApiKey(u) ==
  u.anthropicApiKey # NoKey

\* Analysis.findOne({ symbol }).sort({ timestamp: -1 }): the index of the
\* latest record of the symbol, or 0
Latest(records, sym) ==
  LET of == {k \in 1..Len(records) : records[k].symbol = sym}
  IN  IF of = {} THEN 0
      ELSE CHOOSE k \in of :
             \A j \in of : records[j].timestamp < records[k].timestamp
                           \/ (records[j].timestamp = records[k].timestamp /\ j <= k)

\* the latest record of the symbol is fresh enough
HasFresh(records, sym, time) ==
  /\ Latest(records, sym) # 0
  /\ time - records[Latest(records, sym)].timestamp < ANALYSIS_CACHE_DURATION * 1000

\* what a request to /api/analysis/generate does: its status, whether the
\* answer was the cached record, whether an AI provider was called and
\* whether a record was written
generate(authenticated, body, fault) ==
  LET answer(status, cached, called, wrote) ==
        [status |-> status, cached |-> cached, called |-> called,
         wrote |-> wrote]
  IN  IF ~authenticated THEN answer(401, FALSE, FALSE, FALSE)
      ELSE IF ~body.parses THEN answer(500, FALSE, FALSE, FALSE)
      ELSE IF body.symbol = None THEN answer(400, FALSE, FALSE, FALSE)
      ELSE IF fault = "db" THEN answer(500, FALSE, FALSE, FALSE)
      ELSE IF ~HasApiKey(user) THEN answer(403, FALSE, FALSE, FALSE)
      ELSE IF ~body.forceRefresh /\ HasFresh(analyses, body.symbol[1], now)
      THEN answer(200, TRUE, FALSE, FALSE)
      ELSE IF fault = "market" THEN answer(500, FALSE, FALSE, FALSE)
      ELSE IF fault = "ai" THEN answer(500, FALSE, TRUE, FALSE)
      ELSE IF fault = "create" THEN answer(500, FALSE, TRUE, FALSE)
      ELSE answer(200, FALSE, TRUE, TRUE)

\* POST /api/analysis/generate; a fault is drawn for the requests that reach
\* an awaited call
PostGenerate(authenticated, body, fault) ==
  \E a \in {generate(authenticated, body, fault)} :
    /\ fault # "none" => (authenticated /\ body.symbol # None)
    /\ a.called => Len(aiCalls) < MaxCalls
    /\ genResponse' = [nth |-> IF genResponse = None THEN 0
                               ELSE 1 - genResponse.nth,
                       authenticated |-> authenticated,
                       parses |-> body.parses,
                       named |-> body.symbol # None,
                       lookup |-> fault # "db",
                       status |-> a.status,
                       cached |-> a.cached]
    /\ aiCalls' = IF a.called
                  THEN Append(aiCalls, OrClaude(user.aiProvider))
                  ELSE aiCalls
    /\ analyses' = IF a.wrote
                   THEN Append(analyses, [symbol |-> body.symbol[1],
                                          timestamp |-> now])
                   ELSE analyses
    /\ UNCHANGED <<now, user, keyResponse>>
    /\ UserUnchanged

\* time passes on the server
UserTick ==
  /\ now + UserStep <= MaxTicks * UserStep
  /\ now' = now + UserStep
  /\ UNCHANGED uservars
  /\ UserUnchanged

UserNext ==
  \/ \E authenticated, db \in BOOLEAN :
       \E apiKey \in ApiKeys, aiProvider \in Providers :
         PostApiKey(authenticated, apiKey, aiProvider, db)
  \/ \E authenticated, db \in BOOLEAN : DeleteApiKey(authenticated, db)
  \/ \E authenticated \in BOOLEAN, body \in Bodies, fault \in Faults :
       PostGenerate(authenticated, body, fault)
  \/ UserTick

UserSpec == UserInit /\ [][UserNext]_vars

(* ------------------------------------------------------------------ *)
(* The routes with an in-memory cache: trading pairs, fear and greed    *)
(* ------------------------------------------------------------------ *)

\* CACHE_DURATION of both routes, in milliseconds
CACHE_DURATION == 24 * 60 * 60 * 1000

\* the clock advances by half the cache duration
HalfDay == CACHE_DURATION \div 2

\* what binanceService.getAvailablePairs() may return
PairLists == {<< >>, <<"BTCUSDT">>}

\* what the fear and greed index may be: the values of result.history
IndexSeries == {<<25>>, <<60>>}

\* a validity test that includes the age of 24 hours
IsValidUpTo(timestamp, time) ==
  time - timestamp <= CACHE_DURATION

\* (now - cacheTimestamp) < CACHE_DURATION
IsValid(timestamp, time) ==
  time - timestamp < CACHE_DURATION

\* the variables the two routes leave alone
CacheUnchanged ==
  /\ UNCHANGED <<symbol, interval, initialData, ohlcvData, indicators, error,
                 lastCandleRef, seedApplied, accepted, dropped>>
  /\ UNCHANGED tvars
  /\ UNCHANGED tickvars
  /\ UNCHANGED <<fetches, watchvars, histvars, uservars>>

CacheInit ==
  /\ NoFetches
  /\ Unmounted
  /\ AppInit

\* the response of a route
RouteResponse(route, status, cached, data, failed) ==
  [nth |-> IF routeResponse = None THEN 0 ELSE 1 - routeResponse.nth,
   route |-> route, status |-> status, cached |-> cached, data |-> data,
   failed |-> failed]

\* GET of the trading-pairs route, up to its response or to the await of
\* getAvailablePairs()
GetTradingPairs ==
  /\ IF cachedPairs # None /\ IsValid(cacheTimestamp, now)
     THEN /\ routeResponse' =
               RouteResponse("pairs", 200, TRUE, cachedPairs[1], FALSE)
          /\ UNCHANGED refreshes
     ELSE /\ Cardinality(refreshes) < MaxRefreshes
          /\ refreshes' = refreshes \cup {[route |-> "pairs", started |-> now]}
          /\ UNCHANGED routeResponse
  /\ UNCHANGED <<now, cachedPairs, cacheTimestamp, cachedData, populatedAt>>
  /\ CacheUnchanged

\* getAvailablePairs() returns: the cache is updated with the now of the
\* request
TradingPairsRefreshed(r, pairs) ==
  /\ r.route = "pairs"
  /\ refreshes' = refreshes \ {r}
  /\ cachedPairs' = Some(pairs)
  /\ cacheTimestamp' = r.started
  /\ populatedAt' = [populatedAt EXCEPT !.pairs = now]
  /\ routeResponse' = RouteResponse("pairs", 200, FALSE, pairs, FALSE)
  /\ UNCHANGED <<now, cachedData>>
  /\ CacheUnchanged

\* GET of the fear-greed route, up to its response or to the await of fetch
GetFearGreed ==
  /\ IF cachedData # None /\ IsValid(cachedData[1].timestamp, now)
     THEN /\ routeResponse' =
               RouteResponse("feargreed", 200, TRUE, cachedData[1].data, FALSE)
          /\ UNCHANGED refreshes
     ELSE /\ Cardinality(refreshes) < MaxRefreshes
          /\ refreshes' = refreshes \cup {[route |-> "feargreed", started |-> now]}
          /\ UNCHANGED routeResponse
  /\ UNCHANGED <<now, cachedPairs, cacheTimestamp, cachedData, populatedAt>>
  /\ CacheUnchanged

\* the fetch returns an index: the cache is written with Date.now()
FearGreedRefreshed(r, series) ==
  /\ r.route = "feargreed"
  /\ refreshes' = refreshes \ {r}
  /\ cachedData' = Some([data |-> series, timestamp |-> now])
  /\ populatedAt' = [populatedAt EXCEPT !.feargreed = now]
  /\ routeResponse' = RouteResponse("feargreed", 200, FALSE, series, FALSE)
  /\ UNCHANGED <<now, cachedPairs, cacheTimestamp>>
  /\ CacheUnchanged

\* the upstream of request r fails: getAvailablePairs() or fetch throws, the
\* response is not ok or not of the expected form
RefreshFails(r) ==
  /\ refreshes' = refreshes \ {r}
  /\ routeResponse' = RouteResponse(r.route, 500, FALSE, << >>, TRUE)
  /\ UNCHANGED <<now, cachedPairs, cacheTimestamp, cachedData, populatedAt>>
  /\ CacheUnchanged

\* time passes on the server
CacheTick ==
  /\ now + HalfDay <= MaxTicks * HalfDay
  /\ now' = now + HalfDay
  /\ UNCHANGED cachevars
  /\ CacheUnchanged

CacheNext ==
  \/ GetTradingPairs
  \/ \E r \in refreshes, pairs \in PairLists : TradingPairsRefreshed(r, pairs)
  \/ GetFearGreed
  \/ \E r \in refreshes, series \in IndexSeries : FearGreedRefreshed(r, series)
  \/ \E r \in refreshes : RefreshFails(r)
  \/ CacheTick

CacheSpec == CacheInit /\ [][CacheNext]_vars

(* ------------------------------------------------------------------ *)
(* Properties                                                           *)
(* ------------------------------------------------------------------ *)

Last(s) == s[Len(s)]

StrictlyIncreasing(bars) ==
  \A k \in 1..(Len(bars) - 1) : bars[k].timestamp < bars[k + 1].timestamp

\* the bars of the updates merged since the last seeding, in order
MergedBars == [k \in 1..Len(accepted) |-> accepted[k].candle]

\* only closed bars were merged since the last seeding, in strictly
\* increasing timestamp order
ClosedInOrder ==
  /\ \A k \in 1..Len(accepted) : accepted[k].x
  /\ \A k \in 1..(Len(accepted) - 1) : accepted[k].t < accepted[k + 1].t

\* s truncated to its last n entries
Truncated(s, n) ==
  IF Len(s) <= n THEN s ELSE [k \in 1..n |-> s[k + (Len(s) - n)]]

\* a step of handleMessage that merges m
Merges(m) ==
  /\ PassesGuard(symbol, interval, m)
  /\ accepted' = Append(accepted, Merged(m))
  /\ HandleMessage(m)

\* C1: after a seed of at most 200 bars and closed-bar updates delivered in
\* strictly increasing timestamp order, the buffer equals the seed with the
\* new bars appended in order, truncated to its last 200 entries.
C1_AppendTruncate ==
  ClosedInOrder =>
    ohlcvData = Truncated(seedApplied \o MergedBars, MAX_CANDLES)

\* two closed bars in order were appended to a full seed, so the front was evicted
C1_Witness ==
  /\ ClosedInOrder
  /\ Len(accepted) >= 2
  /\ Len(seedApplied) = MAX_CANDLES
  /\ ohlcvData[1] # seedApplied[1]

\* C2: the buffer never holds more than 200 bars, and an append that would
\* exceed 200 removes exactly the oldest bars at the front.
C2_BoundedFrontEviction ==
  [][ /\ Len(ohlcvData') <= MAX_CANDLES
      /\ \A m \in Messages :
           (Merges(m) /\ m.x /\ Len(ohlcvData) + 1 > MAX_CANDLES) =>
             LET appended == ohlcvData \o << NewCandle(m) >>
                 removed == Len(appended) - MAX_CANDLES
             IN  /\ Len(ohlcvData') = MAX_CANDLES
                 /\ \A k \in 1..MAX_CANDLES : ohlcvData'[k] = appended[k + removed]
    ]_vars

\* a closed bar was appended to a buffer that already held 200 bars
C2_Witness ==
  /\ Len(accepted) > 0
  /\ Last(accepted).x
  /\ Last(accepted).prevLen = MAX_CANDLES
  /\ Len(ohlcvData) = MAX_CANDLES

\* the stream delivers, for each bar in time order, zero or more forming
\* updates followed by one closed update, all later than the seed's last bar
WellFormedStream ==
  /\ \A k \in 1..(Len(accepted) - 1) :
       IF accepted[k].x THEN accepted[k].t < accepted[k + 1].t
                        ELSE accepted[k].t = accepted[k + 1].t
  /\ \A k \in 1..Len(accepted) :
       Len(seedApplied) > 0 => Last(seedApplied).timestamp < accepted[k].t

\* C3: the buffer's timestamps are strictly increasing, provided the seed is
\* strictly increasing and the stream is well formed.
C3_StrictlyOrdered ==
  (StrictlyIncreasing(seedApplied) /\ WellFormedStream) =>
    StrictlyIncreasing(ohlcvData)

\* C4: a forming update whose timestamp equals the timestamp of the buffer's
\* last bar replaces that last entry with the new values and leaves the buffer
\* length and every other entry unchanged.
C4_FormingReplacesLast ==
  [][ \A m \in Messages :
        (Merges(m) /\ ~m.x /\ Len(ohlcvData) > 0
           /\ Last(ohlcvData).timestamp = m.t) =>
          /\ Len(ohlcvData') = Len(ohlcvData)
          /\ Last(ohlcvData') = NewCandle(m)
          /\ \A k \in 1..(Len(ohlcvData) - 1) : ohlcvData'[k] = ohlcvData[k]
    ]_vars

\* a forming update hit the last bar of a non-empty buffer and changed its values
C4_Witness ==
  /\ Len(accepted) > 0
  /\ ~Last(accepted).x
  /\ Last(accepted).hitLast
  /\ Len(seedApplied) > 0
  /\ Len(ohlcvData) = Len(seedApplied)
  /\ Last(ohlcvData) = Last(accepted).candle
  /\ Last(ohlcvData) # Last(seedApplied)

\* C5: after a closed-bar update that passes the guard and leaves at least 200
\* bars in the buffer, the indicator set is the engine's output over the
\* buffer as it stands after the append and the eviction.
C5_ClosedRecomputes ==
  [][ \A m \in Messages :
        (Merges(m) /\ m.x /\ Len(ohlcvData') >= MIN_INDICATOR_BARS) =>
          indicators' = calculateAll(symbol, ohlcvData')
    ]_vars

\* C6: the indicator set is absent if the buffer holds fewer than 200 bars
\* and present if it holds 200 or more.
C6_PresentIffLookback ==
  (indicators = None) <=> (Len(ohlcvData) < MIN_INDICATOR_BARS)

\* a closed bar took the buffer from 199 to 200 bars and the indicator set
\* appeared
C6_Witness ==
  /\ Len(accepted) > 0
  /\ Last(accepted).x
  /\ Last(accepted).prevLen = MIN_INDICATOR_BARS - 1
  /\ Len(ohlcvData) = MIN_INDICATOR_BARS
  /\ indicators # None

\* C7: whenever the indicator set is present it is the engine's output over
\* the current buffer content.
C7_IndicatorsCurrent ==
  indicators # None => indicators = calculateAll(symbol, ohlcvData)

\* C8: when historical bars arrive or the symbol changes, the buffer
\* afterwards equals the seed sequence and the last-seen marker is null.
C8_SeedReplacesAndClears ==
  [][ /\ \A data \in Seeds :
           (Len(data) > 0 /\ SetInitialData(data)) =>
             (ohlcvData' = data /\ lastCandleRef' = None)
      /\ \A sym \in Symbols :
           (Len(initialData) > 0 /\ SetSymbol(sym)) =>
             (ohlcvData' = initialData /\ lastCandleRef' = None)
    ]_vars

\* C9 as stated: a seed of at least 200 bars computes the indicator set from
\* it, a seed of any length below 200 clears it.
C9_AnyShortSeedClears ==
  [][ \A data \in Seeds :
        SetInitialData(data) =>
          indicators' = IF Len(data) >= MIN_INDICATOR_BARS
                        THEN calculateAll(symbol, data) ELSE None
    ]_vars

\* C9 amended: a seed of at least 200 bars computes the indicator set from it,
\* a seed of 1 to 199 bars clears it, and an empty seed is not applied: the
\* buffer and the indicator set stay as they were.
C9_NonEmptyShortSeedClears ==
  [][ /\ \A data \in Seeds :
           SetInitialData(data) =>
             IF Len(data) >= MIN_INDICATOR_BARS
             THEN indicators' = calculateAll(symbol, data)
             ELSE IF Len(data) > 0
             THEN indicators' = None
             ELSE indicators' = indicators /\ ohlcvData' = ohlcvData
      /\ \A sym \in Symbols :
           SetSymbol(sym) =>
             IF Len(initialData) >= MIN_INDICATOR_BARS
             THEN indicators' = calculateAll(sym, initialData)
             ELSE IF Len(initialData) > 0
             THEN indicators' = None
             ELSE indicators' = indicators /\ ohlcvData' = ohlcvData
    ]_vars

\* a seed one bar short of the lookback is in place and the indicator set is
\* absent
C9_Witness ==
  /\ Len(initialData) = MIN_INDICATOR_BARS - 1
  /\ ohlcvData = initialData
  /\ accepted = << >>
  /\ indicators = None

\* C10: a kline message whose symbol or interval differs from the active
\* subscription leaves the buffer, the last-seen marker, the indicator set
\* and the error unchanged.
C10_MismatchIgnored ==
  [][ \A m \in Messages :
        (m.e = "kline" /\ (m.s # symbol \/ m.i # interval)
           /\ HandleMessage(m)) =>
          UNCHANGED <<ohlcvData, lastCandleRef, indicators, error>>
    ]_vars

\* a mismatching message was dropped while an error was reported and the
\* buffer held bars
C10_Witness ==
  /\ dropped
  /\ error # None
  /\ Len(ohlcvData) > 0
  /\ indicators # None

(* ------------------------------------------------------------------ *)
(* Provenance of the newest buffer entries                              *)
(* ------------------------------------------------------------------ *)

RECURSIVE WrittenBy(_)
\* for the entries at the end of the buffer that the first n updates merged
\* since the last seeding have written, oldest first: the timestamp of the
\* update that wrote the entry last and whether that update was not closed
WrittenBy(n) ==
  IF n = 0 THEN << >>
  ELSE LET prev == WrittenBy(n - 1)
           a == accepted[n]
           tag == [forming |-> ~a.x, t |-> a.t]
       IN  IF a.x \/ a.prevLen = 0 THEN Append(prev, tag)
           ELSE IF prev = << >> THEN << tag >>
           ELSE [prev EXCEPT ![Len(prev)] = tag]

Written == WrittenBy(Len(accepted))

\* the position in the buffer of the k-th entry of Written
PositionOf(k) == Len(ohlcvData) - Len(Written) + k

\* the k-th entry of Written was written by a not-closed update and no
\* closed bar of the same timestamp stands behind it
FormingEntry(k) ==
  /\ Written[k].forming
  /\ ~ \E j \in (k + 1)..Len(Written) :
         ~Written[j].forming /\ Written[j].t = Written[k].t

\* C14: a not-closed update whose timestamp differs from the last-seen marker
\* is appended as a new last entry (the buffer grows by one) and its timestamp
\* becomes the last-seen marker.
C14_FormingAppends ==
  [][ \A m \in Messages :
        (~m.x /\ lastCandleRef # Some(m.t) /\ Merges(m)) =>
          /\ lastCandleRef' = Some(m.t)
          /\ ohlcvData' = Append(ohlcvData, NewCandle(m))
    ]_vars

\* C15: a bar appended by a closed update is not changed by any later kline
\* message: it keeps its fields and its place, moving only one position to
\* the front when a full buffer evicts its oldest bar.
C15_ClosedBarsStable ==
  [][ \A m \in Messages :
        Merges(m) =>
          \A k \in 1..Len(Written) :
            ~Written[k].forming =>
              LET i == PositionOf(k)
                  bar == ohlcvData[i]
              IN  \/ ohlcvData'[i] = bar
                  \/ /\ Len(ohlcvData) = MAX_CANDLES
                     /\ (i = 1 \/ ohlcvData'[i - 1] = bar)
    ]_vars

\* C16: the buffer holds at most one forming entry, and a forming entry is
\* the last entry of the buffer.
C16_OneFormingLast ==
  \A k \in 1..Len(Written) : FormingEntry(k) => k = Len(Written)

(* ------------------------------------------------------------------ *)
(* Properties of the hook across subscription changes                   *)
(* ------------------------------------------------------------------ *)

\* C11: a kline message of a previous subscription that is delivered after
\* the symbol or interval has been switched leaves the buffer, the last-seen
\* marker and the indicator set unchanged, whichever transport delivers it.
C11_StaleMessageIgnored ==
  [][ \A s \in 1..Len(sockets) :
        \A frame \in FramesOf(sockets[s].url) :
          (/\ frame.parses
           /\ (frame.message.s # symbol \/ frame.message.i # interval)
           /\ Deliver(s, frame)) =>
            UNCHANGED <<ohlcvData, lastCandleRef, indicators>>
    ]_vars

\* C12: after a switch and before the seed of the new subscription is
\* applied, the delivery of a kline message does not change the buffer.
C12_UnseededIgnored ==
  [][ \A s \in 1..Len(sockets) :
        \A frame \in FramesOf(sockets[s].url) :
          (sinceSwitch # None /\ Deliver(s, frame)) => UNCHANGED ohlcvData
    ]_vars

\* C13: from a switch until the new seed is applied the buffer holds no bar
\* of the previous subscription: it holds no more bars than were merged
\* since the switch.
C13_DiscardedOnSwitch ==
  sinceSwitch # None => Len(ohlcvData) <= sinceSwitch[1]

(* ------------------------------------------------------------------ *)
(* Properties of the transport                                          *)
(* ------------------------------------------------------------------ *)

\* the errors among the callbacks invoked by a step
ErrorsOf(out) == SelectSeq(out, LAMBDA n : n.kind = "error")

\* codes of the errors that report a failure of the connection
ConnectionErrorCodes == {"CONNECTION_ERROR", CloseCode(AbnormalClosure)}

\* the sockets of transport c that are connecting or open
LiveSockets(c) ==
  {s \in 1..Len(sockets) : sockets[s].owner = c /\ IsLive(sockets[s])}

\* C17: when a transport in state connected receives a close event it did not
\* request, its state becomes disconnected, and it reports exactly one
\* connection error if the close was not clean and no error if it was clean.
C17_UnexpectedClose ==
  [][ \A s \in 1..Len(sockets), wasClean \in BOOLEAN :
        (/\ sockets[s].readyState = "OPEN"
         /\ clients[sockets[s].owner].connectionState = "connected"
         /\ SocketCloses(s, wasClean)) =>
          LET c == sockets[s].owner
              errors == ErrorsOf(emitted')
          IN  /\ clients'[c].connectionState = "disconnected"
              /\ Len(errors) = (IF wasClean THEN 0 ELSE 1)
              /\ \A k \in 1..Len(errors) :
                   /\ errors[k].client = c
                   /\ errors[k].value \in ConnectionErrorCodes
    ]_vars

\* the socket of the transport was closed without a request, not cleanly: the
\* transport reported the state disconnected and one close error
C17_Witness ==
  /\ clients[1].ws # 0
  /\ sockets[clients[1].ws].readyState = "CLOSED"
  /\ clients[1].connectionState = "disconnected"
  /\ emitted = << [client |-> 1, kind |-> "state", value |-> "disconnected"],
                  [client |-> 1, kind |-> "error",
                   value |-> CloseCode(AbnormalClosure)] >>

\* C18: after a close it did not request, and until its caller calls it
\* again, a transport constructs no socket and stays in state disconnected.
C18_NoReconnectOnItsOwn ==
  [][ \A c \in 1..Len(clients) :
        (history[c].quiet /\ history'[c].quiet) =>
          /\ Len(sockets') = Len(sockets)
          /\ clients'[c].connectionState = "disconnected"
    ]_vars

\* C19: after disconnect(), and until its caller asks for a connection again,
\* a transport has no socket that is connecting or open, whether or not a
\* settling delay of reconnect() or updateStreams() was pending.
C19_DisconnectCancels ==
  \A c \in 1..Len(clients) : history[c].stopped => LiveSockets(c) = {}

\* C20: when the settling delays of a burst of reconnect() calls have
\* elapsed, exactly one connection attempt has been made (for streams a
\* socket can be constructed for), and at no time has a transport more than
\* one socket that is connecting or open.
C20_OneFreshAttempt ==
  \A c \in 1..Len(clients) :
    /\ Cardinality(LiveSockets(c)) <= 1
    /\ (/\ history[c].burst # None
        /\ clients[c].timers = 0
        /\ Constructs(clients[c].streams)) =>
         history[c].burst = Some(1)

\* the sockets of transport c on which close() was called and whose close
\* event has not arrived yet
ClosingSockets(c) ==
  {s \in 1..Len(sockets) :
     sockets[s].owner = c /\ sockets[s].readyState = "CLOSING"}

\* C21: a transport that disconnect() leaves in state disconnecting has a
\* socket of its own that is closing, so that the close event which ends the
\* state disconnecting is still to come: the state never lasts forever.
C21_DisconnectingEnds ==
  [][ \A c \in 1..Len(clients) :
        (Disconnect(c) /\ clients'[c].connectionState = "disconnecting") =>
          ClosingSockets(c)' # {}
    ]_vars

\* the changes of state of the cycle, and the entries into error
CycleChanges ==
  { <<"disconnected", "connecting">>, <<"connecting", "connected">>,
    <<"connected", "disconnecting">>, <<"disconnecting", "disconnected">>,
    <<"connecting", "error">>, <<"connected", "error">> }

\* the states reported by transport c in a step
StatesOf(out, c) ==
  SelectSeq(out, LAMBDA n : n.kind = "state" /\ n.client = c)

\* the states transport c is in during a step: the state before it, then
\* every state it reports
StatePath(c) ==
  LET states == StatesOf(emitted', c)
  IN  << clients[c].connectionState >> \o
      [k \in 1..Len(states) |-> states[k].value]

\* the step is a call of connect() or reconnect() by the caller of c
CallerConnects(c) == Connect(c) \/ CallReconnect(c)

\* C22: every change of state of a transport is a change of the cycle
\* disconnected, connecting, connected, disconnecting, disconnected or an
\* entry into error from connecting or connected; error is left only within
\* a call of connect() or reconnect() by the caller.
C22_StateCycle ==
  [][ \A c \in 1..Len(clients) :
        LET path == StatePath(c)
        IN  \A k \in 1..(Len(path) - 1) :
              \/ <<path[k], path[k + 1]>> \in CycleChanges
              \/ path[k] = "error" /\ CallerConnects(c)
    ]_vars

\* C23: in whatever state a transport is, reconnect() schedules a connect()
\* and leaves no socket in its way; when the settling delay has elapsed the
\* transport has a socket that is connecting or open (for streams a socket
\* can be constructed for); and when that socket opens the state is connected.
C23_ReconnectEffective ==
  [][ /\ \A c \in 1..Len(clients) :
           /\ CallReconnect(c) =>
                /\ clients'[c].timers = clients[c].timers + 1
                /\ clients'[c].ws = 0
           /\ (TimerFires(c) /\ Constructs(clients[c].streams)) =>
                /\ clients'[c].ws # 0
                /\ IsLive(sockets'[clients'[c].ws])
      /\ \A s \in 1..Len(sockets) :
           SocketOpens(s) =>
             /\ clients'[sockets[s].owner].ws = s
             /\ clients'[sockets[s].owner].connectionState = "connected"
    ]_vars

\* a socket of the transport was closed or has failed; reconnect() was
\* called, the one attempt it made has opened a second socket and the state
\* is connected
C23_Witness ==
  /\ history[1].burst = Some(1)
  /\ Len(sockets) >= 2
  /\ sockets[1].readyState = "CLOSED"
  /\ clients[1].ws = 2
  /\ sockets[2].readyState = "OPEN"
  /\ clients[1].connectionState = "connected"
  /\ emitted = << [client |-> 1, kind |-> "state", value |-> "connected"] >>

\* C24: updateStreams(S) stores S and closes the connection; whenever a
\* transport has a socket that is connecting or open it is its only one and
\* it is subscribed to the streams stored last; and when a settling delay has
\* elapsed the transport has such a socket (for streams a socket can be
\* constructed for).
C24_LastStreamsWin ==
  [][ \A c \in 1..Len(clients) :
        /\ \A streams \in StreamChoices :
             UpdateStreams(c, streams) =>
               /\ clients'[c].streams = streams
               /\ LiveSockets(c)' = {}
        /\ LiveSockets(c)' \subseteq {clients'[c].ws}
        /\ \A s \in LiveSockets(c)' : sockets'[s].url = clients'[c].streams
        /\ (TimerFires(c) /\ Constructs(clients[c].streams)) =>
             LiveSockets(c)' # {}
    ]_vars

\* updateStreams was called twice within the settling delay, first with the
\* streams of BTCUSDT, then with those of ETHUSDT: both delays have elapsed,
\* the transport has one socket, subscribed to the streams of ETHUSDT
C24_Witness ==
  /\ history[1] = NoHistory
  /\ clients[1].timers = 0
  /\ clients[1].streams = StreamOf("ETHUSDT", "1d")
  /\ Len(sockets) = 1
  /\ clients[1].ws = 1
  /\ sockets[1] = [owner |-> 1, url |-> StreamOf("ETHUSDT", "1d"),
                   readyState |-> "CONNECTING"]
  /\ emitted = << >>

\* C25: connect() on a transport that is connecting or connected, by its
\* state or by its socket, creates no socket, changes nothing in the
\* transport and invokes no callback.
C25_ConnectIsNoOp ==
  [][ \A c \in 1..Len(clients) :
        (/\ \/ clients[c].connectionState \in {"connecting", "connected"}
            \/ HasLiveSocket(World, c)
         /\ Connect(c)) =>
          /\ UNCHANGED <<clients, sockets>>
          /\ emitted' = << >>
    ]_vars

\* connect() was called on a transport in state connected whose socket is
\* open: nothing was reported, the transport has the one socket it had
C25_Witness ==
  /\ history[1] = NoHistory
  /\ clients[1].connectionState = "connected"
  /\ clients[1].timers = 0
  /\ Len(sockets) = 1
  /\ clients[1].ws = 1
  /\ sockets[1].readyState = "OPEN"
  /\ emitted = << >>

\* C26: in every step the states a transport reports, preceded by the state
\* it was in, contain no two equal consecutive values and end with the state
\* it is in after the step (the value of getState()): every change of state
\* is reported once, and a call of updateState with the current state is not
\* reported.
C26_NotifiesEveryChange ==
  [][ \A c \in 1..Len(clients) :
        LET path == StatePath(c)
        IN  /\ \A k \in 1..(Len(path) - 1) : path[k] # path[k + 1]
            /\ path[Len(path)] = clients'[c].connectionState
    ]_vars

\* a close event has reached a transport that was already in state
\* disconnected: onclose reported its error and no state
C26_Witness ==
  /\ clients[1].connectionState = "disconnected"
  /\ emitted = << [client |-> 1, kind |-> "error",
                   value |-> CloseCode(AbnormalClosure)] >>

\* C27: a frame that JSON.parse rejects makes the transport report exactly
\* one error, with code PARSE_ERROR, and nothing else: the message handler is
\* not invoked, and the transport, its state and its sockets are unchanged.
C27_ParseError ==
  [][ \A s \in 1..Len(sockets) :
        \A frame \in FramesOf(sockets[s].url) :
          (~frame.parses /\ Receives(s, frame)) =>
            /\ emitted' = << [client |-> sockets[s].owner, kind |-> "error",
                              value |-> "PARSE_ERROR"] >>
            /\ UNCHANGED <<clients, sockets>>
    ]_vars

\* the open socket of a connected transport has received text that is not
\* JSON: the transport has reported PARSE_ERROR and is still connected
C27_Witness ==
  /\ emitted = << [client |-> 1, kind |-> "error", value |-> "PARSE_ERROR"] >>
  /\ clients[1].connectionState = "connected"
  /\ clients[1].ws # 0
  /\ sockets[clients[1].ws].readyState = "OPEN"

(* ------------------------------------------------------------------ *)
(* Properties of the ticker hook                                        *)
(* ------------------------------------------------------------------ *)

\* the positions of the snapshots of symbol sym in a price list
PositionsOf(list, sym) == {k \in 1..Len(list) : list[k].symbol = sym}

\* the step has invoked the message handler, and no other callback
MessageDelivered == Len(emitted') = 1 /\ emitted'[1].kind = "message"

\* the open sockets of transport c
OpenSocketsOf(c) ==
  {s \in 1..Len(sockets) :
     sockets[s].owner = c /\ sockets[s].readyState = "OPEN"}

\* C28: the price list never holds two snapshots of one symbol; a valid
\* ticker message for a symbol that has a snapshot replaces it where it is
\* and leaves the other snapshots as they are, and one for a symbol that has
\* none appends one snapshot.
C28_OneSnapshotPerSymbol ==
  [][ /\ \A sym \in Symbols : Cardinality(PositionsOf(prices', sym)) <= 1
      /\ MessageDelivered =>
           \A s \in OpenSocketsOf(emitted'[1].client) :
             \A frame \in TickerFramesOf(sockets[s].url) :
               (/\ frame.parses
                /\ frame.message.data
                /\ frame.message.e = "24hrTicker"
                /\ DeliverTicker(s, frame)) =>
                 LET newPrice == [symbol |-> frame.message.s,
                                  price |-> parseFloat(frame.message.c)]
                     present == PositionsOf(prices, newPrice.symbol)
                 IN  IF present # {}
                     THEN /\ Len(prices') = Len(prices)
                          /\ \A k \in 1..Len(prices) :
                               prices'[k] = IF k \in present THEN newPrice
                                            ELSE prices[k]
                     ELSE prices' = Append(prices, newPrice)
    ]_vars

\* tickers of both symbols have been delivered, the last one just now: the
\* list holds one snapshot of each, that of BTCUSDT with its second price
C28_Witness ==
  /\ prices = << [symbol |-> "BTCUSDT", price |-> 106],
                 [symbol |-> "ETHUSDT", price |-> 105] >>
  /\ Len(emitted) = 1
  /\ emitted[1].kind = "message"

\* C29: when the hook is rendered with another symbols array the price list
\* becomes, in that step, the list it was without the snapshots of the
\* symbols that are not in the array: the other snapshots stay as they are
\* and in their order.
C29_PrunedAtChange ==
  [][ (Len(clients') # Len(clients) \/ Len(symbols') = 0) =>
        \A list \in SymbolLists :
          (symbols' = list /\ SymbolsChange(list)) =>
            prices' = SelectSeq(prices,
                                LAMBDA price :
                                  \E k \in 1..Len(list) : list[k] = price.symbol)
    ]_vars

\* the watchlist BTCUSDT, ETHUSDT has just become ETHUSDT: the transport of
\* the old list is disconnecting, that of the new one connecting, and the
\* list holds the snapshot of ETHUSDT alone
C29_Witness ==
  /\ symbols = << "ETHUSDT" >>
  /\ Len(clients) = 2
  /\ wsClientRef = 2
  /\ clients[1].streams = TickerStreams(<< "BTCUSDT", "ETHUSDT" >>)
  /\ prices = << [symbol |-> "ETHUSDT", price |-> 106] >>
  /\ emitted = << [client |-> 1, kind |-> "state", value |-> "disconnecting"],
                  [client |-> 2, kind |-> "state", value |-> "connecting"] >>

\* C30: the delivery of a message that has no data member, or whose data.e
\* is not 24hrTicker, leaves the price list and the error of the hook as they
\* are, and no error is reported.
C30_InvalidTickerDropped ==
  [][ MessageDelivered =>
        \A s \in OpenSocketsOf(emitted'[1].client) :
          \A frame \in TickerFramesOf(sockets[s].url) :
            (/\ frame.parses
             /\ (~frame.message.data \/ frame.message.e # "24hrTicker")
             /\ DeliverTicker(s, frame)) =>
              /\ UNCHANGED <<prices, error>>
              /\ ErrorsOf(emitted') = << >>
    ]_vars

\* text that is not JSON was received and its error is shown; a message of
\* another event type has just been delivered: the error is still shown and
\* the snapshot the list holds is still there
C30_Witness ==
  /\ error = Some("PARSE_ERROR")
  /\ prices = << [symbol |-> "BTCUSDT", price |-> 105] >>
  /\ emitted = << [client |-> 1, kind |-> "message", value |-> "kline"] >>

\* C33: every snapshot of the price list is of a symbol of the symbols array
\* the hook was rendered with last: no delivery after the pruning brings the
\* snapshot of a removed symbol back.
C33_OnlySubscribedSnapshots ==
  \A k \in 1..Len(prices) : Includes(symbols, prices[k].symbol)

\* C32: the connection state the hook exposes is the state of the transport
\* it owns (disconnected while it owns none).
C32_StateOfOwnedTransport ==
  connectionState = IF wsClientRef # 0
                    THEN clients[wsClientRef].connectionState
                    ELSE "disconnected"

(* ------------------------------------------------------------------ *)
(* Properties of the page                                               *)
(* ------------------------------------------------------------------ *)

\* C31: once no historical fetch is in flight, the bar buffer, as long as no
\* live update was merged into it, is the seed fetched for the selected
\* symbol.
C31_SeedOfSelectedSymbol ==
  (fetches = << >> /\ accepted = << >>) => ohlcvData = SeedFor(symbol)

(* ------------------------------------------------------------------ *)
(* Properties of the watchlist storage                                  *)
(* ------------------------------------------------------------------ *)

\* no entry of list occurs twice
Distinct(list) ==
  \A j, k \in 1..Len(list) : list[j] = list[k] => j = k

\* C34: from nothing stored or 1 to 10 distinct pairs stored, after any
\* addToWatchlist and removeFromWatchlist calls the stored watchlist, and the
\* watchlist loadWatchlist gives, holds 1 to 10 pairs and no pair twice.
C34_SizeAndNoDuplicates ==
  /\ stored # None =>
       /\ Len(stored.pairs) \in MIN_WATCHLIST_SIZE..MAX_WATCHLIST_SIZE
       /\ Distinct(stored.pairs)
  /\ Len(loadWatchlist(stored)) \in MIN_WATCHLIST_SIZE..MAX_WATCHLIST_SIZE
  /\ Distinct(loadWatchlist(stored))

\* an add has filled the watchlist
C34_Witness ==
  /\ lastOp # None
  /\ lastOp.op = "add"
  /\ lastOp.wrote
  /\ Len(stored.pairs) = MAX_WATCHLIST_SIZE

\* the last call did not apply, for the watchlist current loaded before it
NotApplied(current, call) ==
  IF call.op = "add"
  THEN Includes(current, call.pair) \/ Len(current) >= MAX_WATCHLIST_SIZE
  ELSE ~Includes(current, call.pair) \/ Len(current) <= MIN_WATCHLIST_SIZE

\* C35: a call that does not apply leaves the stored watchlist as it is and
\* writes nothing; adding a new pair to 10 pairs and removing the only pair
\* throw, adding a pair present and removing a pair absent return the current
\* list.
C35_NotAppliedChangesNothing ==
  [][LET current == loadWatchlist(stored)
     IN  (lastOp' # None /\ NotApplied(current, lastOp')) =>
           /\ stored' = stored
           /\ ~lastOp'.wrote
           /\ IF lastOp'.op = "add"
              THEN IF Includes(current, lastOp'.pair)
                   THEN lastOp'.outcome = "returned" /\ lastOp'.value = current
                   ELSE lastOp'.outcome = "threw"
              ELSE IF ~Includes(current, lastOp'.pair)
                   THEN lastOp'.outcome = "returned" /\ lastOp'.value = current
                   ELSE lastOp'.outcome = "threw"]_vars

\* the only pair of the watchlist was to be removed: the call threw
C35_Witness ==
  /\ lastOp # None
  /\ lastOp.op = "remove"
  /\ lastOp.outcome = "threw"
  /\ stored # None
  /\ stored.pairs = << lastOp.pair >>

(* ------------------------------------------------------------------ *)
(* Properties of the route /api/crypto/historical                       *)
(* ------------------------------------------------------------------ *)

\* C36: a successful response to a request with limit L carries the bars
\* obtained for that limit, never those cached for another limit.
C36_BarsOfRequestedLimit ==
  (histResponse # None /\ histResponse.status = 200) =>
    histResponse.data =
      getHistoricalData(histResponse.symbol, "1d", histResponse.limit).data

(* ------------------------------------------------------------------ *)
(* Properties of the account routes                                     *)
(* ------------------------------------------------------------------ *)

\* C37: a key stored with provider 'claude' starts with 'sk-' and a key
\* stored with provider 'gemini' starts with 'AIza'.
C37_KeyMatchesProvider ==
  user.anthropicApiKey # NoKey =>
    /\ user.aiProvider = "claude" => startsWith(user.anthropicApiKey, ClaudePrefix)
    /\ user.aiProvider = "gemini" => startsWith(user.anthropicApiKey, GeminiPrefix)

\* C38: a request to /api/analysis/generate calls an AI provider or writes a
\* record only if the caller is authenticated, the body names a symbol and a
\* key is stored; it answers 401 exactly when the caller is not
\* authenticated, 400 exactly when an authenticated caller's body names no
\* symbol, and 403 exactly when an authenticated caller names a symbol, the
\* user is read and no key is stored. No other request of the account calls
\* a provider or writes a record.
C38_ChecksBeforeAnalysis ==
  [][LET r == genResponse'
         served == r.authenticated /\ r.parses /\ r.named
         keyStored == user.anthropicApiKey # NoKey
     IN  IF genResponse' = genResponse
         THEN aiCalls' = aiCalls /\ analyses' = analyses
         ELSE /\ (aiCalls' # aiCalls \/ analyses' # analyses) =>
                   (served /\ keyStored)
              /\ r.status = 401 <=> ~r.authenticated
              /\ r.status = 400 <=> (r.authenticated /\ r.parses /\ ~r.named)
              /\ r.status = 403 <=> (served /\ r.lookup /\ ~keyStored)]_vars

\* an analysis was generated and stored
C38_Witness ==
  /\ genResponse # None
  /\ genResponse.status = 200
  /\ ~genResponse.cached
  /\ Len(aiCalls) > 0
  /\ Len(analyses) > 0

(* ------------------------------------------------------------------ *)
(* Properties of the routes with an in-memory cache                     *)
(* ------------------------------------------------------------------ *)

\* C39: a response served from the cache is served less than 24 hours after
\* the cache was written, and is what the cache holds; a request whose
\* upstream fails is answered 500, and a response of 500 leaves the cached
\* values and their timestamps as they were.
C39_FreshOrRefreshed ==
  [][(routeResponse' # None /\
        (routeResponse = None \/ routeResponse'.nth # routeResponse.nth)) =>
       LET r == routeResponse'
       IN  /\ r.cached =>
                /\ r.status = 200
                /\ populatedAt[r.route] >= 0
                /\ now - populatedAt[r.route] < CACHE_DURATION
                /\ r.data = IF r.route = "pairs" THEN cachedPairs[1]
                            ELSE cachedData[1].data
           /\ r.failed => r.status = 500
           /\ r.status = 500 =>
                UNCHANGED <<cachedPairs, cacheTimestamp, cachedData>>]_vars

\* a refresh of the expired trading pairs has failed, the pairs are still
\* cached
C39_Witness ==
  /\ routeResponse # None
  /\ routeResponse.failed
  /\ routeResponse.route = "pairs"
  /\ cachedPairs # None
  /\ now - cacheTimestamp >= CACHE_DURATION

====
